---- MODULE Spec2Model ----
(***************************************************************************)
(* Model of the lead-qualification core of the AI SDR dashboard backend:   *)
(*   - LLMService (services/llm_service.py): the completion oracle with    *)
(*     its retry loop, waits and rule-based fallback text;                 *)
(*   - SDRAgent (agents/sdr_agent.py): qualify_lead, generate_email, the   *)
(*     response parser, the escalation rules, the governance rules and the *)
(*     two rule-based fallbacks;                                           *)
(*   - the prompt templates (agents/prompt_templates.py);                  *)
(*   - the handlers of the leads (routers/leads.py): create, import and    *)
(*     delete, and the lead-qualification endpoint, which composes the two *)
(*     operations and writes the lead and the interaction log;             *)
(*   - the handlers of the campaigns (routers/campaigns.py): create,       *)
(*     status update and run_campaign, the selection of the leads and the  *)
(*     loop that qualifies each of them in a transaction of its own;       *)
(*   - the transactions of get_db (database.py) on the SQLite database     *)
(*     the requests share: a handler is a sequence of transactions, and    *)
(*     the requests of several clients interleave between them.            *)
(*                                                                         *)
(* Text.  A Python str is a sequence of one-character strings, so that     *)
(* searching, case conversion, slicing and trimming are computed on the    *)
(* characters.  A code point that cannot be written in a TLA+ string is    *)
(* one element named by its code point ("U+2713").  Inside a template a    *)
(* replacement field is one element ("{industry}").  The Python value None *)
(* is the one-element sequence <<"None">>, which is no sequence of         *)
(* characters and so equals no text.  A Python dict is a record; a key it  *)
(* does not hold is a field the record does not have.  Case conversion, \s  *)
(* and \d follow the character tables of the interpreter, which the module *)
(* lists in full.  A timestamp is an opaque value of the clock.            *)
(***************************************************************************)
EXTENDS Integers, Sequences, FiniteSets, TLC

VARIABLES
  config,       \* the process-wide LLMService instance: api_token, model, max_retries,
                \* timeout, enabled
  pc,           \* per invocation: "idle", "attempt" (inside the retry loop), "done",
                \* or "raised" (an exception left generate)
  input,        \* per invocation: the operation and its arguments
  attempt,      \* per invocation: the loop variable of LLMService.generate
  requests,     \* per invocation: the number of requests.post calls made
  last,         \* per invocation: the outcome of the latest requests.post call
  completions,  \* per invocation: the number of well-formed 200 responses received
  sleeps,       \* per invocation: the durations passed to time.sleep, in order
  returned,     \* per invocation: how generate returned, and its text
  result,       \* per invocation: the value the operation returned
  ptext,        \* parser runs: the oracle text
  plead,        \* parser runs: the variant and the lead
  pout,         \* parser runs: the parser's and qualify_lead's results
  gtext,        \* governance runs: the email text
  gout,         \* governance runs: the result of _check_governance
  ein,          \* escalation runs: the lead, the decision and the reasoning
  eout,         \* escalation runs: the result of _check_escalation_rules
  db,           \* the database: the committed rows of leads, campaigns and
                \* agent_interactions, and the AUTOINCREMENT counters
  serving       \* per client: the request the server is handling for it, the handler's
                \* position and locals, and the response once it is sent

vars == <<config, pc, input, attempt, requests, last, completions, sleeps, returned, result,
          ptext, plead, pout, gtext, gout, ein, eout, db, serving>>

-----------------------------------------------------------------------------
(* Python values *)

None == <<"None">>

\* bool(v) of a str or None
Truthy(v) == v /= None /\ v /= <<>>

\* dict.get(key, default): the default only replaces a missing key
Get(d, key, default) == IF key \in DOMAIN d THEN d[key] ELSE default

\* dict.get(key): a missing key reads as None
Get1(d, key) == Get(d, key, None)

\* str(v) as str.format renders a str or None
Str(v) == IF v = None THEN <<"N", "o", "n", "e">> ELSE v

\* what a call that raises ValueError gives in place of its result
ValueError == [raised |-> "ValueError"]

\* the call that gave r raised
IsError(r) == "raised" \in DOMAIN r

-----------------------------------------------------------------------------
(* The character tables of the interpreter (Python 3.11, Unicode 14.0.0) *)

\* str.lower() of every character it changes, four entries a character: the character,
\* then the characters of its image, then "" up to the fourth; the image of U+03A3 is
\* the one it has outside the final position of a word
LowerMapping ==
  <<
    "A", "a", "", "", "B", "b", "", "", "C", "c", "", "", "D", "d", "", "", "E", "e", "", "",
    "F", "f", "", "", "G", "g", "", "", "H", "h", "", "", "I", "i", "", "", "J", "j", "", "",
    "K", "k", "", "", "L", "l", "", "", "M", "m", "", "", "N", "n", "", "", "O", "o", "", "",
    "P", "p", "", "", "Q", "q", "", "", "R", "r", "", "", "S", "s", "", "", "T", "t", "", "",
    "U", "u", "", "", "V", "v", "", "", "W", "w", "", "", "X", "x", "", "", "Y", "y", "", "",
    "Z", "z", "", "", "U+00C0", "U+00E0", "", "", "U+00C1", "U+00E1", "", "",
    "U+00C2", "U+00E2", "", "", "U+00C3", "U+00E3", "", "", "U+00C4", "U+00E4", "", "",
    "U+00C5", "U+00E5", "", "", "U+00C6", "U+00E6", "", "", "U+00C7", "U+00E7", "", "",
    "U+00C8", "U+00E8", "", "", "U+00C9", "U+00E9", "", "", "U+00CA", "U+00EA", "", "",
    "U+00CB", "U+00EB", "", "", "U+00CC", "U+00EC", "", "", "U+00CD", "U+00ED", "", "",
    "U+00CE", "U+00EE", "", "", "U+00CF", "U+00EF", "", "", "U+00D0", "U+00F0", "", "",
    "U+00D1", "U+00F1", "", "", "U+00D2", "U+00F2", "", "", "U+00D3", "U+00F3", "", "",
    "U+00D4", "U+00F4", "", "", "U+00D5", "U+00F5", "", "", "U+00D6", "U+00F6", "", "",
    "U+00D8", "U+00F8", "", "", "U+00D9", "U+00F9", "", "", "U+00DA", "U+00FA", "", "",
    "U+00DB", "U+00FB", "", "", "U+00DC", "U+00FC", "", "", "U+00DD", "U+00FD", "", "",
    "U+00DE", "U+00FE", "", "", "U+0100", "U+0101", "", "", "U+0102", "U+0103", "", "",
    "U+0104", "U+0105", "", "", "U+0106", "U+0107", "", "", "U+0108", "U+0109", "", "",
    "U+010A", "U+010B", "", "", "U+010C", "U+010D", "", "", "U+010E", "U+010F", "", "",
    "U+0110", "U+0111", "", "", "U+0112", "U+0113", "", "", "U+0114", "U+0115", "", "",
    "U+0116", "U+0117", "", "", "U+0118", "U+0119", "", "", "U+011A", "U+011B", "", "",
    "U+011C", "U+011D", "", "", "U+011E", "U+011F", "", "", "U+0120", "U+0121", "", "",
    "U+0122", "U+0123", "", "", "U+0124", "U+0125", "", "", "U+0126", "U+0127", "", "",
    "U+0128", "U+0129", "", "", "U+012A", "U+012B", "", "", "U+012C", "U+012D", "", "",
    "U+012E", "U+012F", "", "", "U+0130", "i", "U+0307", "", "U+0132", "U+0133", "", "",
    "U+0134", "U+0135", "", "", "U+0136", "U+0137", "", "", "U+0139", "U+013A", "", "",
    "U+013B", "U+013C", "", "", "U+013D", "U+013E", "", "", "U+013F", "U+0140", "", "",
    "U+0141", "U+0142", "", "", "U+0143", "U+0144", "", "", "U+0145", "U+0146", "", "",
    "U+0147", "U+0148", "", "", "U+014A", "U+014B", "", "", "U+014C", "U+014D", "", "",
    "U+014E", "U+014F", "", "", "U+0150", "U+0151", "", "", "U+0152", "U+0153", "", "",
    "U+0154", "U+0155", "", "", "U+0156", "U+0157", "", "", "U+0158", "U+0159", "", "",
    "U+015A", "U+015B", "", "", "U+015C", "U+015D", "", "", "U+015E", "U+015F", "", "",
    "U+0160", "U+0161", "", "", "U+0162", "U+0163", "", "", "U+0164", "U+0165", "", "",
    "U+0166", "U+0167", "", "", "U+0168", "U+0169", "", "", "U+016A", "U+016B", "", "",
    "U+016C", "U+016D", "", "", "U+016E", "U+016F", "", "", "U+0170", "U+0171", "", "",
    "U+0172", "U+0173", "", "", "U+0174", "U+0175", "", "", "U+0176", "U+0177", "", "",
    "U+0178", "U+00FF", "", "", "U+0179", "U+017A", "", "", "U+017B", "U+017C", "", "",
    "U+017D", "U+017E", "", "", "U+0181", "U+0253", "", "", "U+0182", "U+0183", "", "",
    "U+0184", "U+0185", "", "", "U+0186", "U+0254", "", "", "U+0187", "U+0188", "", "",
    "U+0189", "U+0256", "", "", "U+018A", "U+0257", "", "", "U+018B", "U+018C", "", "",
    "U+018E", "U+01DD", "", "", "U+018F", "U+0259", "", "", "U+0190", "U+025B", "", "",
    "U+0191", "U+0192", "", "", "U+0193", "U+0260", "", "", "U+0194", "U+0263", "", "",
    "U+0196", "U+0269", "", "", "U+0197", "U+0268", "", "", "U+0198", "U+0199", "", "",
    "U+019C", "U+026F", "", "", "U+019D", "U+0272", "", "", "U+019F", "U+0275", "", "",
    "U+01A0", "U+01A1", "", "", "U+01A2", "U+01A3", "", "", "U+01A4", "U+01A5", "", "",
    "U+01A6", "U+0280", "", "", "U+01A7", "U+01A8", "", "", "U+01A9", "U+0283", "", "",
    "U+01AC", "U+01AD", "", "", "U+01AE", "U+0288", "", "", "U+01AF", "U+01B0", "", "",
    "U+01B1", "U+028A", "", "", "U+01B2", "U+028B", "", "", "U+01B3", "U+01B4", "", "",
    "U+01B5", "U+01B6", "", "", "U+01B7", "U+0292", "", "", "U+01B8", "U+01B9", "", "",
    "U+01BC", "U+01BD", "", "", "U+01C4", "U+01C6", "", "", "U+01C5", "U+01C6", "", "",
    "U+01C7", "U+01C9", "", "", "U+01C8", "U+01C9", "", "", "U+01CA", "U+01CC", "", "",
    "U+01CB", "U+01CC", "", "", "U+01CD", "U+01CE", "", "", "U+01CF", "U+01D0", "", "",
    "U+01D1", "U+01D2", "", "", "U+01D3", "U+01D4", "", "", "U+01D5", "U+01D6", "", "",
    "U+01D7", "U+01D8", "", "", "U+01D9", "U+01DA", "", "", "U+01DB", "U+01DC", "", "",
    "U+01DE", "U+01DF", "", "", "U+01E0", "U+01E1", "", "", "U+01E2", "U+01E3", "", "",
    "U+01E4", "U+01E5", "", "", "U+01E6", "U+01E7", "", "", "U+01E8", "U+01E9", "", "",
    "U+01EA", "U+01EB", "", "", "U+01EC", "U+01ED", "", "", "U+01EE", "U+01EF", "", "",
    "U+01F1", "U+01F3", "", "", "U+01F2", "U+01F3", "", "", "U+01F4", "U+01F5", "", "",
    "U+01F6", "U+0195", "", "", "U+01F7", "U+01BF", "", "", "U+01F8", "U+01F9", "", "",
    "U+01FA", "U+01FB", "", "", "U+01FC", "U+01FD", "", "", "U+01FE", "U+01FF", "", "",
    "U+0200", "U+0201", "", "", "U+0202", "U+0203", "", "", "U+0204", "U+0205", "", "",
    "U+0206", "U+0207", "", "", "U+0208", "U+0209", "", "", "U+020A", "U+020B", "", "",
    "U+020C", "U+020D", "", "", "U+020E", "U+020F", "", "", "U+0210", "U+0211", "", "",
    "U+0212", "U+0213", "", "", "U+0214", "U+0215", "", "", "U+0216", "U+0217", "", "",
    "U+0218", "U+0219", "", "", "U+021A", "U+021B", "", "", "U+021C", "U+021D", "", "",
    "U+021E", "U+021F", "", "", "U+0220", "U+019E", "", "", "U+0222", "U+0223", "", "",
    "U+0224", "U+0225", "", "", "U+0226", "U+0227", "", "", "U+0228", "U+0229", "", "",
    "U+022A", "U+022B", "", "", "U+022C", "U+022D", "", "", "U+022E", "U+022F", "", "",
    "U+0230", "U+0231", "", "", "U+0232", "U+0233", "", "", "U+023A", "U+2C65", "", "",
    "U+023B", "U+023C", "", "", "U+023D", "U+019A", "", "", "U+023E", "U+2C66", "", "",
    "U+0241", "U+0242", "", "", "U+0243", "U+0180", "", "", "U+0244", "U+0289", "", "",
    "U+0245", "U+028C", "", "", "U+0246", "U+0247", "", "", "U+0248", "U+0249", "", "",
    "U+024A", "U+024B", "", "", "U+024C", "U+024D", "", "", "U+024E", "U+024F", "", "",
    "U+0370", "U+0371", "", "", "U+0372", "U+0373", "", "", "U+0376", "U+0377", "", "",
    "U+037F", "U+03F3", "", "", "U+0386", "U+03AC", "", "", "U+0388", "U+03AD", "", "",
    "U+0389", "U+03AE", "", "", "U+038A", "U+03AF", "", "", "U+038C", "U+03CC", "", "",
    "U+038E", "U+03CD", "", "", "U+038F", "U+03CE", "", "", "U+0391", "U+03B1", "", "",
    "U+0392", "U+03B2", "", "", "U+0393", "U+03B3", "", "", "U+0394", "U+03B4", "", "",
    "U+0395", "U+03B5", "", "", "U+0396", "U+03B6", "", "", "U+0397", "U+03B7", "", "",
    "U+0398", "U+03B8", "", "", "U+0399", "U+03B9", "", "", "U+039A", "U+03BA", "", "",
    "U+039B", "U+03BB", "", "", "U+039C", "U+03BC", "", "", "U+039D", "U+03BD", "", "",
    "U+039E", "U+03BE", "", "", "U+039F", "U+03BF", "", "", "U+03A0", "U+03C0", "", "",
    "U+03A1", "U+03C1", "", "", "U+03A3", "U+03C3", "", "", "U+03A4", "U+03C4", "", "",
    "U+03A5", "U+03C5", "", "", "U+03A6", "U+03C6", "", "", "U+03A7", "U+03C7", "", "",
    "U+03A8", "U+03C8", "", "", "U+03A9", "U+03C9", "", "", "U+03AA", "U+03CA", "", "",
    "U+03AB", "U+03CB", "", "", "U+03CF", "U+03D7", "", "", "U+03D8", "U+03D9", "", "",
    "U+03DA", "U+03DB", "", "", "U+03DC", "U+03DD", "", "", "U+03DE", "U+03DF", "", "",
    "U+03E0", "U+03E1", "", "", "U+03E2", "U+03E3", "", "", "U+03E4", "U+03E5", "", "",
    "U+03E6", "U+03E7", "", "", "U+03E8", "U+03E9", "", "", "U+03EA", "U+03EB", "", "",
    "U+03EC", "U+03ED", "", "", "U+03EE", "U+03EF", "", "", "U+03F4", "U+03B8", "", "",
    "U+03F7", "U+03F8", "", "", "U+03F9", "U+03F2", "", "", "U+03FA", "U+03FB", "", "",
    "U+03FD", "U+037B", "", "", "U+03FE", "U+037C", "", "", "U+03FF", "U+037D", "", "",
    "U+0400", "U+0450", "", "", "U+0401", "U+0451", "", "", "U+0402", "U+0452", "", "",
    "U+0403", "U+0453", "", "", "U+0404", "U+0454", "", "", "U+0405", "U+0455", "", "",
    "U+0406", "U+0456", "", "", "U+0407", "U+0457", "", "", "U+0408", "U+0458", "", "",
    "U+0409", "U+0459", "", "", "U+040A", "U+045A", "", "", "U+040B", "U+045B", "", "",
    "U+040C", "U+045C", "", "", "U+040D", "U+045D", "", "", "U+040E", "U+045E", "", "",
    "U+040F", "U+045F", "", "", "U+0410", "U+0430", "", "", "U+0411", "U+0431", "", "",
    "U+0412", "U+0432", "", "", "U+0413", "U+0433", "", "", "U+0414", "U+0434", "", "",
    "U+0415", "U+0435", "", "", "U+0416", "U+0436", "", "", "U+0417", "U+0437", "", "",
    "U+0418", "U+0438", "", "", "U+0419", "U+0439", "", "", "U+041A", "U+043A", "", "",
    "U+041B", "U+043B", "", "", "U+041C", "U+043C", "", "", "U+041D", "U+043D", "", "",
    "U+041E", "U+043E", "", "", "U+041F", "U+043F", "", "", "U+0420", "U+0440", "", "",
    "U+0421", "U+0441", "", "", "U+0422", "U+0442", "", "", "U+0423", "U+0443", "", "",
    "U+0424", "U+0444", "", "", "U+0425", "U+0445", "", "", "U+0426", "U+0446", "", "",
    "U+0427", "U+0447", "", "", "U+0428", "U+0448", "", "", "U+0429", "U+0449", "", "",
    "U+042A", "U+044A", "", "", "U+042B", "U+044B", "", "", "U+042C", "U+044C", "", "",
    "U+042D", "U+044D", "", "", "U+042E", "U+044E", "", "", "U+042F", "U+044F", "", "",
    "U+0460", "U+0461", "", "", "U+0462", "U+0463", "", "", "U+0464", "U+0465", "", "",
    "U+0466", "U+0467", "", "", "U+0468", "U+0469", "", "", "U+046A", "U+046B", "", "",
    "U+046C", "U+046D", "", "", "U+046E", "U+046F", "", "", "U+0470", "U+0471", "", "",
    "U+0472", "U+0473", "", "", "U+0474", "U+0475", "", "", "U+0476", "U+0477", "", "",
    "U+0478", "U+0479", "", "", "U+047A", "U+047B", "", "", "U+047C", "U+047D", "", "",
    "U+047E", "U+047F", "", "", "U+0480", "U+0481", "", "", "U+048A", "U+048B", "", "",
    "U+048C", "U+048D", "", "", "U+048E", "U+048F", "", "", "U+0490", "U+0491", "", "",
    "U+0492", "U+0493", "", "", "U+0494", "U+0495", "", "", "U+0496", "U+0497", "", "",
    "U+0498", "U+0499", "", "", "U+049A", "U+049B", "", "", "U+049C", "U+049D", "", "",
    "U+049E", "U+049F", "", "", "U+04A0", "U+04A1", "", "", "U+04A2", "U+04A3", "", "",
    "U+04A4", "U+04A5", "", "", "U+04A6", "U+04A7", "", "", "U+04A8", "U+04A9", "", "",
    "U+04AA", "U+04AB", "", "", "U+04AC", "U+04AD", "", "", "U+04AE", "U+04AF", "", "",
    "U+04B0", "U+04B1", "", "", "U+04B2", "U+04B3", "", "", "U+04B4", "U+04B5", "", "",
    "U+04B6", "U+04B7", "", "", "U+04B8", "U+04B9", "", "", "U+04BA", "U+04BB", "", "",
    "U+04BC", "U+04BD", "", "", "U+04BE", "U+04BF", "", "", "U+04C0", "U+04CF", "", "",
    "U+04C1", "U+04C2", "", "", "U+04C3", "U+04C4", "", "", "U+04C5", "U+04C6", "", "",
    "U+04C7", "U+04C8", "", "", "U+04C9", "U+04CA", "", "", "U+04CB", "U+04CC", "", "",
    "U+04CD", "U+04CE", "", "", "U+04D0", "U+04D1", "", "", "U+04D2", "U+04D3", "", "",
    "U+04D4", "U+04D5", "", "", "U+04D6", "U+04D7", "", "", "U+04D8", "U+04D9", "", "",
    "U+04DA", "U+04DB", "", "", "U+04DC", "U+04DD", "", "", "U+04DE", "U+04DF", "", "",
    "U+04E0", "U+04E1", "", "", "U+04E2", "U+04E3", "", "", "U+04E4", "U+04E5", "", "",
    "U+04E6", "U+04E7", "", "", "U+04E8", "U+04E9", "", "", "U+04EA", "U+04EB", "", "",
    "U+04EC", "U+04ED", "", "", "U+04EE", "U+04EF", "", "", "U+04F0", "U+04F1", "", "",
    "U+04F2", "U+04F3", "", "", "U+04F4", "U+04F5", "", "", "U+04F6", "U+04F7", "", "",
    "U+04F8", "U+04F9", "", "", "U+04FA", "U+04FB", "", "", "U+04FC", "U+04FD", "", "",
    "U+04FE", "U+04FF", "", "", "U+0500", "U+0501", "", "", "U+0502", "U+0503", "", "",
    "U+0504", "U+0505", "", "", "U+0506", "U+0507", "", "", "U+0508", "U+0509", "", "",
    "U+050A", "U+050B", "", "", "U+050C", "U+050D", "", "", "U+050E", "U+050F", "", "",
    "U+0510", "U+0511", "", "", "U+0512", "U+0513", "", "", "U+0514", "U+0515", "", "",
    "U+0516", "U+0517", "", "", "U+0518", "U+0519", "", "", "U+051A", "U+051B", "", "",
    "U+051C", "U+051D", "", "", "U+051E", "U+051F", "", "", "U+0520", "U+0521", "", "",
    "U+0522", "U+0523", "", "", "U+0524", "U+0525", "", "", "U+0526", "U+0527", "", "",
    "U+0528", "U+0529", "", "", "U+052A", "U+052B", "", "", "U+052C", "U+052D", "", "",
    "U+052E", "U+052F", "", "", "U+0531", "U+0561", "", "", "U+0532", "U+0562", "", "",
    "U+0533", "U+0563", "", "", "U+0534", "U+0564", "", "", "U+0535", "U+0565", "", "",
    "U+0536", "U+0566", "", "", "U+0537", "U+0567", "", "", "U+0538", "U+0568", "", "",
    "U+0539", "U+0569", "", "", "U+053A", "U+056A", "", "", "U+053B", "U+056B", "", "",
    "U+053C", "U+056C", "", "", "U+053D", "U+056D", "", "", "U+053E", "U+056E", "", "",
    "U+053F", "U+056F", "", "", "U+0540", "U+0570", "", "", "U+0541", "U+0571", "", "",
    "U+0542", "U+0572", "", "", "U+0543", "U+0573", "", "", "U+0544", "U+0574", "", "",
    "U+0545", "U+0575", "", "", "U+0546", "U+0576", "", "", "U+0547", "U+0577", "", "",
    "U+0548", "U+0578", "", "", "U+0549", "U+0579", "", "", "U+054A", "U+057A", "", "",
    "U+054B", "U+057B", "", "", "U+054C", "U+057C", "", "", "U+054D", "U+057D", "", "",
    "U+054E", "U+057E", "", "", "U+054F", "U+057F", "", "", "U+0550", "U+0580", "", "",
    "U+0551", "U+0581", "", "", "U+0552", "U+0582", "", "", "U+0553", "U+0583", "", "",
    "U+0554", "U+0584", "", "", "U+0555", "U+0585", "", "", "U+0556", "U+0586", "", "",
    "U+10A0", "U+2D00", "", "", "U+10A1", "U+2D01", "", "", "U+10A2", "U+2D02", "", "",
    "U+10A3", "U+2D03", "", "", "U+10A4", "U+2D04", "", "", "U+10A5", "U+2D05", "", "",
    "U+10A6", "U+2D06", "", "", "U+10A7", "U+2D07", "", "", "U+10A8", "U+2D08", "", "",
    "U+10A9", "U+2D09", "", "", "U+10AA", "U+2D0A", "", "", "U+10AB", "U+2D0B", "", "",
    "U+10AC", "U+2D0C", "", "", "U+10AD", "U+2D0D", "", "", "U+10AE", "U+2D0E", "", "",
    "U+10AF", "U+2D0F", "", "", "U+10B0", "U+2D10", "", "", "U+10B1", "U+2D11", "", "",
    "U+10B2", "U+2D12", "", "", "U+10B3", "U+2D13", "", "", "U+10B4", "U+2D14", "", "",
    "U+10B5", "U+2D15", "", "", "U+10B6", "U+2D16", "", "", "U+10B7", "U+2D17", "", "",
    "U+10B8", "U+2D18", "", "", "U+10B9", "U+2D19", "", "", "U+10BA", "U+2D1A", "", "",
    "U+10BB", "U+2D1B", "", "", "U+10BC", "U+2D1C", "", "", "U+10BD", "U+2D1D", "", "",
    "U+10BE", "U+2D1E", "", "", "U+10BF", "U+2D1F", "", "", "U+10C0", "U+2D20", "", "",
    "U+10C1", "U+2D21", "", "", "U+10C2", "U+2D22", "", "", "U+10C3", "U+2D23", "", "",
    "U+10C4", "U+2D24", "", "", "U+10C5", "U+2D25", "", "", "U+10C7", "U+2D27", "", "",
    "U+10CD", "U+2D2D", "", "", "U+13A0", "U+AB70", "", "", "U+13A1", "U+AB71", "", "",
    "U+13A2", "U+AB72", "", "", "U+13A3", "U+AB73", "", "", "U+13A4", "U+AB74", "", "",
    "U+13A5", "U+AB75", "", "", "U+13A6", "U+AB76", "", "", "U+13A7", "U+AB77", "", "",
    "U+13A8", "U+AB78", "", "", "U+13A9", "U+AB79", "", "", "U+13AA", "U+AB7A", "", "",
    "U+13AB", "U+AB7B", "", "", "U+13AC", "U+AB7C", "", "", "U+13AD", "U+AB7D", "", "",
    "U+13AE", "U+AB7E", "", "", "U+13AF", "U+AB7F", "", "", "U+13B0", "U+AB80", "", "",
    "U+13B1", "U+AB81", "", "", "U+13B2", "U+AB82", "", "", "U+13B3", "U+AB83", "", "",
    "U+13B4", "U+AB84", "", "", "U+13B5", "U+AB85", "", "", "U+13B6", "U+AB86", "", "",
    "U+13B7", "U+AB87", "", "", "U+13B8", "U+AB88", "", "", "U+13B9", "U+AB89", "", "",
    "U+13BA", "U+AB8A", "", "", "U+13BB", "U+AB8B", "", "", "U+13BC", "U+AB8C", "", "",
    "U+13BD", "U+AB8D", "", "", "U+13BE", "U+AB8E", "", "", "U+13BF", "U+AB8F", "", "",
    "U+13C0", "U+AB90", "", "", "U+13C1", "U+AB91", "", "", "U+13C2", "U+AB92", "", "",
    "U+13C3", "U+AB93", "", "", "U+13C4", "U+AB94", "", "", "U+13C5", "U+AB95", "", "",
    "U+13C6", "U+AB96", "", "", "U+13C7", "U+AB97", "", "", "U+13C8", "U+AB98", "", "",
    "U+13C9", "U+AB99", "", "", "U+13CA", "U+AB9A", "", "", "U+13CB", "U+AB9B", "", "",
    "U+13CC", "U+AB9C", "", "", "U+13CD", "U+AB9D", "", "", "U+13CE", "U+AB9E", "", "",
    "U+13CF", "U+AB9F", "", "", "U+13D0", "U+ABA0", "", "", "U+13D1", "U+ABA1", "", "",
    "U+13D2", "U+ABA2", "", "", "U+13D3", "U+ABA3", "", "", "U+13D4", "U+ABA4", "", "",
    "U+13D5", "U+ABA5", "", "", "U+13D6", "U+ABA6", "", "", "U+13D7", "U+ABA7", "", "",
    "U+13D8", "U+ABA8", "", "", "U+13D9", "U+ABA9", "", "", "U+13DA", "U+ABAA", "", "",
    "U+13DB", "U+ABAB", "", "", "U+13DC", "U+ABAC", "", "", "U+13DD", "U+ABAD", "", "",
    "U+13DE", "U+ABAE", "", "", "U+13DF", "U+ABAF", "", "", "U+13E0", "U+ABB0", "", "",
    "U+13E1", "U+ABB1", "", "", "U+13E2", "U+ABB2", "", "", "U+13E3", "U+ABB3", "", "",
    "U+13E4", "U+ABB4", "", "", "U+13E5", "U+ABB5", "", "", "U+13E6", "U+ABB6", "", "",
    "U+13E7", "U+ABB7", "", "", "U+13E8", "U+ABB8", "", "", "U+13E9", "U+ABB9", "", "",
    "U+13EA", "U+ABBA", "", "", "U+13EB", "U+ABBB", "", "", "U+13EC", "U+ABBC", "", "",
    "U+13ED", "U+ABBD", "", "", "U+13EE", "U+ABBE", "", "", "U+13EF", "U+ABBF", "", "",
    "U+13F0", "U+13F8", "", "", "U+13F1", "U+13F9", "", "", "U+13F2", "U+13FA", "", "",
    "U+13F3", "U+13FB", "", "", "U+13F4", "U+13FC", "", "", "U+13F5", "U+13FD", "", "",
    "U+1C90", "U+10D0", "", "", "U+1C91", "U+10D1", "", "", "U+1C92", "U+10D2", "", "",
    "U+1C93", "U+10D3", "", "", "U+1C94", "U+10D4", "", "", "U+1C95", "U+10D5", "", "",
    "U+1C96", "U+10D6", "", "", "U+1C97", "U+10D7", "", "", "U+1C98", "U+10D8", "", "",
    "U+1C99", "U+10D9", "", "", "U+1C9A", "U+10DA", "", "", "U+1C9B", "U+10DB", "", "",
    "U+1C9C", "U+10DC", "", "", "U+1C9D", "U+10DD", "", "", "U+1C9E", "U+10DE", "", "",
    "U+1C9F", "U+10DF", "", "", "U+1CA0", "U+10E0", "", "", "U+1CA1", "U+10E1", "", "",
    "U+1CA2", "U+10E2", "", "", "U+1CA3", "U+10E3", "", "", "U+1CA4", "U+10E4", "", "",
    "U+1CA5", "U+10E5", "", "", "U+1CA6", "U+10E6", "", "", "U+1CA7", "U+10E7", "", "",
    "U+1CA8", "U+10E8", "", "", "U+1CA9", "U+10E9", "", "", "U+1CAA", "U+10EA", "", "",
    "U+1CAB", "U+10EB", "", "", "U+1CAC", "U+10EC", "", "", "U+1CAD", "U+10ED", "", "",
    "U+1CAE", "U+10EE", "", "", "U+1CAF", "U+10EF", "", "", "U+1CB0", "U+10F0", "", "",
    "U+1CB1", "U+10F1", "", "", "U+1CB2", "U+10F2", "", "", "U+1CB3", "U+10F3", "", "",
    "U+1CB4", "U+10F4", "", "", "U+1CB5", "U+10F5", "", "", "U+1CB6", "U+10F6", "", "",
    "U+1CB7", "U+10F7", "", "", "U+1CB8", "U+10F8", "", "", "U+1CB9", "U+10F9", "", "",
    "U+1CBA", "U+10FA", "", "", "U+1CBD", "U+10FD", "", "", "U+1CBE", "U+10FE", "", "",
    "U+1CBF", "U+10FF", "", "", "U+1E00", "U+1E01", "", "", "U+1E02", "U+1E03", "", "",
    "U+1E04", "U+1E05", "", "", "U+1E06", "U+1E07", "", "", "U+1E08", "U+1E09", "", "",
    "U+1E0A", "U+1E0B", "", "", "U+1E0C", "U+1E0D", "", "", "U+1E0E", "U+1E0F", "", "",
    "U+1E10", "U+1E11", "", "", "U+1E12", "U+1E13", "", "", "U+1E14", "U+1E15", "", "",
    "U+1E16", "U+1E17", "", "", "U+1E18", "U+1E19", "", "", "U+1E1A", "U+1E1B", "", "",
    "U+1E1C", "U+1E1D", "", "", "U+1E1E", "U+1E1F", "", "", "U+1E20", "U+1E21", "", "",
    "U+1E22", "U+1E23", "", "", "U+1E24", "U+1E25", "", "", "U+1E26", "U+1E27", "", "",
    "U+1E28", "U+1E29", "", "", "U+1E2A", "U+1E2B", "", "", "U+1E2C", "U+1E2D", "", "",
    "U+1E2E", "U+1E2F", "", "", "U+1E30", "U+1E31", "", "", "U+1E32", "U+1E33", "", "",
    "U+1E34", "U+1E35", "", "", "U+1E36", "U+1E37", "", "", "U+1E38", "U+1E39", "", "",
    "U+1E3A", "U+1E3B", "", "", "U+1E3C", "U+1E3D", "", "", "U+1E3E", "U+1E3F", "", "",
    "U+1E40", "U+1E41", "", "", "U+1E42", "U+1E43", "", "", "U+1E44", "U+1E45", "", "",
    "U+1E46", "U+1E47", "", "", "U+1E48", "U+1E49", "", "", "U+1E4A", "U+1E4B", "", "",
    "U+1E4C", "U+1E4D", "", "", "U+1E4E", "U+1E4F", "", "", "U+1E50", "U+1E51", "", "",
    "U+1E52", "U+1E53", "", "", "U+1E54", "U+1E55", "", "", "U+1E56", "U+1E57", "", "",
    "U+1E58", "U+1E59", "", "", "U+1E5A", "U+1E5B", "", "", "U+1E5C", "U+1E5D", "", "",
    "U+1E5E", "U+1E5F", "", "", "U+1E60", "U+1E61", "", "", "U+1E62", "U+1E63", "", "",
    "U+1E64", "U+1E65", "", "", "U+1E66", "U+1E67", "", "", "U+1E68", "U+1E69", "", "",
    "U+1E6A", "U+1E6B", "", "", "U+1E6C", "U+1E6D", "", "", "U+1E6E", "U+1E6F", "", "",
    "U+1E70", "U+1E71", "", "", "U+1E72", "U+1E73", "", "", "U+1E74", "U+1E75", "", "",
    "U+1E76", "U+1E77", "", "", "U+1E78", "U+1E79", "", "", "U+1E7A", "U+1E7B", "", "",
    "U+1E7C", "U+1E7D", "", "", "U+1E7E", "U+1E7F", "", "", "U+1E80", "U+1E81", "", "",
    "U+1E82", "U+1E83", "", "", "U+1E84", "U+1E85", "", "", "U+1E86", "U+1E87", "", "",
    "U+1E88", "U+1E89", "", "", "U+1E8A", "U+1E8B", "", "", "U+1E8C", "U+1E8D", "", "",
    "U+1E8E", "U+1E8F", "", "", "U+1E90", "U+1E91", "", "", "U+1E92", "U+1E93", "", "",
    "U+1E94", "U+1E95", "", "", "U+1E9E", "U+00DF", "", "", "U+1EA0", "U+1EA1", "", "",
    "U+1EA2", "U+1EA3", "", "", "U+1EA4", "U+1EA5", "", "", "U+1EA6", "U+1EA7", "", "",
    "U+1EA8", "U+1EA9", "", "", "U+1EAA", "U+1EAB", "", "", "U+1EAC", "U+1EAD", "", "",
    "U+1EAE", "U+1EAF", "", "", "U+1EB0", "U+1EB1", "", "", "U+1EB2", "U+1EB3", "", "",
    "U+1EB4", "U+1EB5", "", "", "U+1EB6", "U+1EB7", "", "", "U+1EB8", "U+1EB9", "", "",
    "U+1EBA", "U+1EBB", "", "", "U+1EBC", "U+1EBD", "", "", "U+1EBE", "U+1EBF", "", "",
    "U+1EC0", "U+1EC1", "", "", "U+1EC2", "U+1EC3", "", "", "U+1EC4", "U+1EC5", "", "",
    "U+1EC6", "U+1EC7", "", "", "U+1EC8", "U+1EC9", "", "", "U+1ECA", "U+1ECB", "", "",
    "U+1ECC", "U+1ECD", "", "", "U+1ECE", "U+1ECF", "", "", "U+1ED0", "U+1ED1", "", "",
    "U+1ED2", "U+1ED3", "", "", "U+1ED4", "U+1ED5", "", "", "U+1ED6", "U+1ED7", "", "",
    "U+1ED8", "U+1ED9", "", "", "U+1EDA", "U+1EDB", "", "", "U+1EDC", "U+1EDD", "", "",
    "U+1EDE", "U+1EDF", "", "", "U+1EE0", "U+1EE1", "", "", "U+1EE2", "U+1EE3", "", "",
    "U+1EE4", "U+1EE5", "", "", "U+1EE6", "U+1EE7", "", "", "U+1EE8", "U+1EE9", "", "",
    "U+1EEA", "U+1EEB", "", "", "U+1EEC", "U+1EED", "", "", "U+1EEE", "U+1EEF", "", "",
    "U+1EF0", "U+1EF1", "", "", "U+1EF2", "U+1EF3", "", "", "U+1EF4", "U+1EF5", "", "",
    "U+1EF6", "U+1EF7", "", "", "U+1EF8", "U+1EF9", "", "", "U+1EFA", "U+1EFB", "", "",
    "U+1EFC", "U+1EFD", "", "", "U+1EFE", "U+1EFF", "", "", "U+1F08", "U+1F00", "", "",
    "U+1F09", "U+1F01", "", "", "U+1F0A", "U+1F02", "", "", "U+1F0B", "U+1F03", "", "",
    "U+1F0C", "U+1F04", "", "", "U+1F0D", "U+1F05", "", "", "U+1F0E", "U+1F06", "", "",
    "U+1F0F", "U+1F07", "", "", "U+1F18", "U+1F10", "", "", "U+1F19", "U+1F11", "", "",
    "U+1F1A", "U+1F12", "", "", "U+1F1B", "U+1F13", "", "", "U+1F1C", "U+1F14", "", "",
    "U+1F1D", "U+1F15", "", "", "U+1F28", "U+1F20", "", "", "U+1F29", "U+1F21", "", "",
    "U+1F2A", "U+1F22", "", "", "U+1F2B", "U+1F23", "", "", "U+1F2C", "U+1F24", "", "",
    "U+1F2D", "U+1F25", "", "", "U+1F2E", "U+1F26", "", "", "U+1F2F", "U+1F27", "", "",
    "U+1F38", "U+1F30", "", "", "U+1F39", "U+1F31", "", "", "U+1F3A", "U+1F32", "", "",
    "U+1F3B", "U+1F33", "", "", "U+1F3C", "U+1F34", "", "", "U+1F3D", "U+1F35", "", "",
    "U+1F3E", "U+1F36", "", "", "U+1F3F", "U+1F37", "", "", "U+1F48", "U+1F40", "", "",
    "U+1F49", "U+1F41", "", "", "U+1F4A", "U+1F42", "", "", "U+1F4B", "U+1F43", "", "",
    "U+1F4C", "U+1F44", "", "", "U+1F4D", "U+1F45", "", "", "U+1F59", "U+1F51", "", "",
    "U+1F5B", "U+1F53", "", "", "U+1F5D", "U+1F55", "", "", "U+1F5F", "U+1F57", "", "",
    "U+1F68", "U+1F60", "", "", "U+1F69", "U+1F61", "", "", "U+1F6A", "U+1F62", "", "",
    "U+1F6B", "U+1F63", "", "", "U+1F6C", "U+1F64", "", "", "U+1F6D", "U+1F65", "", "",
    "U+1F6E", "U+1F66", "", "", "U+1F6F", "U+1F67", "", "", "U+1F88", "U+1F80", "", "",
    "U+1F89", "U+1F81", "", "", "U+1F8A", "U+1F82", "", "", "U+1F8B", "U+1F83", "", "",
    "U+1F8C", "U+1F84", "", "", "U+1F8D", "U+1F85", "", "", "U+1F8E", "U+1F86", "", "",
    "U+1F8F", "U+1F87", "", "", "U+1F98", "U+1F90", "", "", "U+1F99", "U+1F91", "", "",
    "U+1F9A", "U+1F92", "", "", "U+1F9B", "U+1F93", "", "", "U+1F9C", "U+1F94", "", "",
    "U+1F9D", "U+1F95", "", "", "U+1F9E", "U+1F96", "", "", "U+1F9F", "U+1F97", "", "",
    "U+1FA8", "U+1FA0", "", "", "U+1FA9", "U+1FA1", "", "", "U+1FAA", "U+1FA2", "", "",
    "U+1FAB", "U+1FA3", "", "", "U+1FAC", "U+1FA4", "", "", "U+1FAD", "U+1FA5", "", "",
    "U+1FAE", "U+1FA6", "", "", "U+1FAF", "U+1FA7", "", "", "U+1FB8", "U+1FB0", "", "",
    "U+1FB9", "U+1FB1", "", "", "U+1FBA", "U+1F70", "", "", "U+1FBB", "U+1F71", "", "",
    "U+1FBC", "U+1FB3", "", "", "U+1FC8", "U+1F72", "", "", "U+1FC9", "U+1F73", "", "",
    "U+1FCA", "U+1F74", "", "", "U+1FCB", "U+1F75", "", "", "U+1FCC", "U+1FC3", "", "",
    "U+1FD8", "U+1FD0", "", "", "U+1FD9", "U+1FD1", "", "", "U+1FDA", "U+1F76", "", "",
    "U+1FDB", "U+1F77", "", "", "U+1FE8", "U+1FE0", "", "", "U+1FE9", "U+1FE1", "", "",
    "U+1FEA", "U+1F7A", "", "", "U+1FEB", "U+1F7B", "", "", "U+1FEC", "U+1FE5", "", "",
    "U+1FF8", "U+1F78", "", "", "U+1FF9", "U+1F79", "", "", "U+1FFA", "U+1F7C", "", "",
    "U+1FFB", "U+1F7D", "", "", "U+1FFC", "U+1FF3", "", "", "U+2126", "U+03C9", "", "",
    "U+212A", "k", "", "", "U+212B", "U+00E5", "", "", "U+2132", "U+214E", "", "",
    "U+2160", "U+2170", "", "", "U+2161", "U+2171", "", "", "U+2162", "U+2172", "", "",
    "U+2163", "U+2173", "", "", "U+2164", "U+2174", "", "", "U+2165", "U+2175", "", "",
    "U+2166", "U+2176", "", "", "U+2167", "U+2177", "", "", "U+2168", "U+2178", "", "",
    "U+2169", "U+2179", "", "", "U+216A", "U+217A", "", "", "U+216B", "U+217B", "", "",
    "U+216C", "U+217C", "", "", "U+216D", "U+217D", "", "", "U+216E", "U+217E", "", "",
    "U+216F", "U+217F", "", "", "U+2183", "U+2184", "", "", "U+24B6", "U+24D0", "", "",
    "U+24B7", "U+24D1", "", "", "U+24B8", "U+24D2", "", "", "U+24B9", "U+24D3", "", "",
    "U+24BA", "U+24D4", "", "", "U+24BB", "U+24D5", "", "", "U+24BC", "U+24D6", "", "",
    "U+24BD", "U+24D7", "", "", "U+24BE", "U+24D8", "", "", "U+24BF", "U+24D9", "", "",
    "U+24C0", "U+24DA", "", "", "U+24C1", "U+24DB", "", "", "U+24C2", "U+24DC", "", "",
    "U+24C3", "U+24DD", "", "", "U+24C4", "U+24DE", "", "", "U+24C5", "U+24DF", "", "",
    "U+24C6", "U+24E0", "", "", "U+24C7", "U+24E1", "", "", "U+24C8", "U+24E2", "", "",
    "U+24C9", "U+24E3", "", "", "U+24CA", "U+24E4", "", "", "U+24CB", "U+24E5", "", "",
    "U+24CC", "U+24E6", "", "", "U+24CD", "U+24E7", "", "", "U+24CE", "U+24E8", "", "",
    "U+24CF", "U+24E9", "", "", "U+2C00", "U+2C30", "", "", "U+2C01", "U+2C31", "", "",
    "U+2C02", "U+2C32", "", "", "U+2C03", "U+2C33", "", "", "U+2C04", "U+2C34", "", "",
    "U+2C05", "U+2C35", "", "", "U+2C06", "U+2C36", "", "", "U+2C07", "U+2C37", "", "",
    "U+2C08", "U+2C38", "", "", "U+2C09", "U+2C39", "", "", "U+2C0A", "U+2C3A", "", "",
    "U+2C0B", "U+2C3B", "", "", "U+2C0C", "U+2C3C", "", "", "U+2C0D", "U+2C3D", "", "",
    "U+2C0E", "U+2C3E", "", "", "U+2C0F", "U+2C3F", "", "", "U+2C10", "U+2C40", "", "",
    "U+2C11", "U+2C41", "", "", "U+2C12", "U+2C42", "", "", "U+2C13", "U+2C43", "", "",
    "U+2C14", "U+2C44", "", "", "U+2C15", "U+2C45", "", "", "U+2C16", "U+2C46", "", "",
    "U+2C17", "U+2C47", "", "", "U+2C18", "U+2C48", "", "", "U+2C19", "U+2C49", "", "",
    "U+2C1A", "U+2C4A", "", "", "U+2C1B", "U+2C4B", "", "", "U+2C1C", "U+2C4C", "", "",
    "U+2C1D", "U+2C4D", "", "", "U+2C1E", "U+2C4E", "", "", "U+2C1F", "U+2C4F", "", "",
    "U+2C20", "U+2C50", "", "", "U+2C21", "U+2C51", "", "", "U+2C22", "U+2C52", "", "",
    "U+2C23", "U+2C53", "", "", "U+2C24", "U+2C54", "", "", "U+2C25", "U+2C55", "", "",
    "U+2C26", "U+2C56", "", "", "U+2C27", "U+2C57", "", "", "U+2C28", "U+2C58", "", "",
    "U+2C29", "U+2C59", "", "", "U+2C2A", "U+2C5A", "", "", "U+2C2B", "U+2C5B", "", "",
    "U+2C2C", "U+2C5C", "", "", "U+2C2D", "U+2C5D", "", "", "U+2C2E", "U+2C5E", "", "",
    "U+2C2F", "U+2C5F", "", "", "U+2C60", "U+2C61", "", "", "U+2C62", "U+026B", "", "",
    "U+2C63", "U+1D7D", "", "", "U+2C64", "U+027D", "", "", "U+2C67", "U+2C68", "", "",
    "U+2C69", "U+2C6A", "", "", "U+2C6B", "U+2C6C", "", "", "U+2C6D", "U+0251", "", "",
    "U+2C6E", "U+0271", "", "", "U+2C6F", "U+0250", "", "", "U+2C70", "U+0252", "", "",
    "U+2C72", "U+2C73", "", "", "U+2C75", "U+2C76", "", "", "U+2C7E", "U+023F", "", "",
    "U+2C7F", "U+0240", "", "", "U+2C80", "U+2C81", "", "", "U+2C82", "U+2C83", "", "",
    "U+2C84", "U+2C85", "", "", "U+2C86", "U+2C87", "", "", "U+2C88", "U+2C89", "", "",
    "U+2C8A", "U+2C8B", "", "", "U+2C8C", "U+2C8D", "", "", "U+2C8E", "U+2C8F", "", "",
    "U+2C90", "U+2C91", "", "", "U+2C92", "U+2C93", "", "", "U+2C94", "U+2C95", "", "",
    "U+2C96", "U+2C97", "", "", "U+2C98", "U+2C99", "", "", "U+2C9A", "U+2C9B", "", "",
    "U+2C9C", "U+2C9D", "", "", "U+2C9E", "U+2C9F", "", "", "U+2CA0", "U+2CA1", "", "",
    "U+2CA2", "U+2CA3", "", "", "U+2CA4", "U+2CA5", "", "", "U+2CA6", "U+2CA7", "", "",
    "U+2CA8", "U+2CA9", "", "", "U+2CAA", "U+2CAB", "", "", "U+2CAC", "U+2CAD", "", "",
    "U+2CAE", "U+2CAF", "", "", "U+2CB0", "U+2CB1", "", "", "U+2CB2", "U+2CB3", "", "",
    "U+2CB4", "U+2CB5", "", "", "U+2CB6", "U+2CB7", "", "", "U+2CB8", "U+2CB9", "", "",
    "U+2CBA", "U+2CBB", "", "", "U+2CBC", "U+2CBD", "", "", "U+2CBE", "U+2CBF", "", "",
    "U+2CC0", "U+2CC1", "", "", "U+2CC2", "U+2CC3", "", "", "U+2CC4", "U+2CC5", "", "",
    "U+2CC6", "U+2CC7", "", "", "U+2CC8", "U+2CC9", "", "", "U+2CCA", "U+2CCB", "", "",
    "U+2CCC", "U+2CCD", "", "", "U+2CCE", "U+2CCF", "", "", "U+2CD0", "U+2CD1", "", "",
    "U+2CD2", "U+2CD3", "", "", "U+2CD4", "U+2CD5", "", "", "U+2CD6", "U+2CD7", "", "",
    "U+2CD8", "U+2CD9", "", "", "U+2CDA", "U+2CDB", "", "", "U+2CDC", "U+2CDD", "", "",
    "U+2CDE", "U+2CDF", "", "", "U+2CE0", "U+2CE1", "", "", "U+2CE2", "U+2CE3", "", "",
    "U+2CEB", "U+2CEC", "", "", "U+2CED", "U+2CEE", "", "", "U+2CF2", "U+2CF3", "", "",
    "U+A640", "U+A641", "", "", "U+A642", "U+A643", "", "", "U+A644", "U+A645", "", "",
    "U+A646", "U+A647", "", "", "U+A648", "U+A649", "", "", "U+A64A", "U+A64B", "", "",
    "U+A64C", "U+A64D", "", "", "U+A64E", "U+A64F", "", "", "U+A650", "U+A651", "", "",
    "U+A652", "U+A653", "", "", "U+A654", "U+A655", "", "", "U+A656", "U+A657", "", "",
    "U+A658", "U+A659", "", "", "U+A65A", "U+A65B", "", "", "U+A65C", "U+A65D", "", "",
    "U+A65E", "U+A65F", "", "", "U+A660", "U+A661", "", "", "U+A662", "U+A663", "", "",
    "U+A664", "U+A665", "", "", "U+A666", "U+A667", "", "", "U+A668", "U+A669", "", "",
    "U+A66A", "U+A66B", "", "", "U+A66C", "U+A66D", "", "", "U+A680", "U+A681", "", "",
    "U+A682", "U+A683", "", "", "U+A684", "U+A685", "", "", "U+A686", "U+A687", "", "",
    "U+A688", "U+A689", "", "", "U+A68A", "U+A68B", "", "", "U+A68C", "U+A68D", "", "",
    "U+A68E", "U+A68F", "", "", "U+A690", "U+A691", "", "", "U+A692", "U+A693", "", "",
    "U+A694", "U+A695", "", "", "U+A696", "U+A697", "", "", "U+A698", "U+A699", "", "",
    "U+A69A", "U+A69B", "", "", "U+A722", "U+A723", "", "", "U+A724", "U+A725", "", "",
    "U+A726", "U+A727", "", "", "U+A728", "U+A729", "", "", "U+A72A", "U+A72B", "", "",
    "U+A72C", "U+A72D", "", "", "U+A72E", "U+A72F", "", "", "U+A732", "U+A733", "", "",
    "U+A734", "U+A735", "", "", "U+A736", "U+A737", "", "", "U+A738", "U+A739", "", "",
    "U+A73A", "U+A73B", "", "", "U+A73C", "U+A73D", "", "", "U+A73E", "U+A73F", "", "",
    "U+A740", "U+A741", "", "", "U+A742", "U+A743", "", "", "U+A744", "U+A745", "", "",
    "U+A746", "U+A747", "", "", "U+A748", "U+A749", "", "", "U+A74A", "U+A74B", "", "",
    "U+A74C", "U+A74D", "", "", "U+A74E", "U+A74F", "", "", "U+A750", "U+A751", "", "",
    "U+A752", "U+A753", "", "", "U+A754", "U+A755", "", "", "U+A756", "U+A757", "", "",
    "U+A758", "U+A759", "", "", "U+A75A", "U+A75B", "", "", "U+A75C", "U+A75D", "", "",
    "U+A75E", "U+A75F", "", "", "U+A760", "U+A761", "", "", "U+A762", "U+A763", "", "",
    "U+A764", "U+A765", "", "", "U+A766", "U+A767", "", "", "U+A768", "U+A769", "", "",
    "U+A76A", "U+A76B", "", "", "U+A76C", "U+A76D", "", "", "U+A76E", "U+A76F", "", "",
    "U+A779", "U+A77A", "", "", "U+A77B", "U+A77C", "", "", "U+A77D", "U+1D79", "", "",
    "U+A77E", "U+A77F", "", "", "U+A780", "U+A781", "", "", "U+A782", "U+A783", "", "",
    "U+A784", "U+A785", "", "", "U+A786", "U+A787", "", "", "U+A78B", "U+A78C", "", "",
    "U+A78D", "U+0265", "", "", "U+A790", "U+A791", "", "", "U+A792", "U+A793", "", "",
    "U+A796", "U+A797", "", "", "U+A798", "U+A799", "", "", "U+A79A", "U+A79B", "", "",
    "U+A79C", "U+A79D", "", "", "U+A79E", "U+A79F", "", "", "U+A7A0", "U+A7A1", "", "",
    "U+A7A2", "U+A7A3", "", "", "U+A7A4", "U+A7A5", "", "", "U+A7A6", "U+A7A7", "", "",
    "U+A7A8", "U+A7A9", "", "", "U+A7AA", "U+0266", "", "", "U+A7AB", "U+025C", "", "",
    "U+A7AC", "U+0261", "", "", "U+A7AD", "U+026C", "", "", "U+A7AE", "U+026A", "", "",
    "U+A7B0", "U+029E", "", "", "U+A7B1", "U+0287", "", "", "U+A7B2", "U+029D", "", "",
    "U+A7B3", "U+AB53", "", "", "U+A7B4", "U+A7B5", "", "", "U+A7B6", "U+A7B7", "", "",
    "U+A7B8", "U+A7B9", "", "", "U+A7BA", "U+A7BB", "", "", "U+A7BC", "U+A7BD", "", "",
    "U+A7BE", "U+A7BF", "", "", "U+A7C0", "U+A7C1", "", "", "U+A7C2", "U+A7C3", "", "",
    "U+A7C4", "U+A794", "", "", "U+A7C5", "U+0282", "", "", "U+A7C6", "U+1D8E", "", "",
    "U+A7C7", "U+A7C8", "", "", "U+A7C9", "U+A7CA", "", "", "U+A7D0", "U+A7D1", "", "",
    "U+A7D6", "U+A7D7", "", "", "U+A7D8", "U+A7D9", "", "", "U+A7F5", "U+A7F6", "", "",
    "U+FF21", "U+FF41", "", "", "U+FF22", "U+FF42", "", "", "U+FF23", "U+FF43", "", "",
    "U+FF24", "U+FF44", "", "", "U+FF25", "U+FF45", "", "", "U+FF26", "U+FF46", "", "",
    "U+FF27", "U+FF47", "", "", "U+FF28", "U+FF48", "", "", "U+FF29", "U+FF49", "", "",
    "U+FF2A", "U+FF4A", "", "", "U+FF2B", "U+FF4B", "", "", "U+FF2C", "U+FF4C", "", "",
    "U+FF2D", "U+FF4D", "", "", "U+FF2E", "U+FF4E", "", "", "U+FF2F", "U+FF4F", "", "",
    "U+FF30", "U+FF50", "", "", "U+FF31", "U+FF51", "", "", "U+FF32", "U+FF52", "", "",
    "U+FF33", "U+FF53", "", "", "U+FF34", "U+FF54", "", "", "U+FF35", "U+FF55", "", "",
    "U+FF36", "U+FF56", "", "", "U+FF37", "U+FF57", "", "", "U+FF38", "U+FF58", "", "",
    "U+FF39", "U+FF59", "", "", "U+FF3A", "U+FF5A", "", "", "U+10400", "U+10428", "", "",
    "U+10401", "U+10429", "", "", "U+10402", "U+1042A", "", "", "U+10403", "U+1042B", "", "",
    "U+10404", "U+1042C", "", "", "U+10405", "U+1042D", "", "", "U+10406", "U+1042E", "", "",
    "U+10407", "U+1042F", "", "", "U+10408", "U+10430", "", "", "U+10409", "U+10431", "", "",
    "U+1040A", "U+10432", "", "", "U+1040B", "U+10433", "", "", "U+1040C", "U+10434", "", "",
    "U+1040D", "U+10435", "", "", "U+1040E", "U+10436", "", "", "U+1040F", "U+10437", "", "",
    "U+10410", "U+10438", "", "", "U+10411", "U+10439", "", "", "U+10412", "U+1043A", "", "",
    "U+10413", "U+1043B", "", "", "U+10414", "U+1043C", "", "", "U+10415", "U+1043D", "", "",
    "U+10416", "U+1043E", "", "", "U+10417", "U+1043F", "", "", "U+10418", "U+10440", "", "",
    "U+10419", "U+10441", "", "", "U+1041A", "U+10442", "", "", "U+1041B", "U+10443", "", "",
    "U+1041C", "U+10444", "", "", "U+1041D", "U+10445", "", "", "U+1041E", "U+10446", "", "",
    "U+1041F", "U+10447", "", "", "U+10420", "U+10448", "", "", "U+10421", "U+10449", "", "",
    "U+10422", "U+1044A", "", "", "U+10423", "U+1044B", "", "", "U+10424", "U+1044C", "", "",
    "U+10425", "U+1044D", "", "", "U+10426", "U+1044E", "", "", "U+10427", "U+1044F", "", "",
    "U+104B0", "U+104D8", "", "", "U+104B1", "U+104D9", "", "", "U+104B2", "U+104DA", "", "",
    "U+104B3", "U+104DB", "", "", "U+104B4", "U+104DC", "", "", "U+104B5", "U+104DD", "", "",
    "U+104B6", "U+104DE", "", "", "U+104B7", "U+104DF", "", "", "U+104B8", "U+104E0", "", "",
    "U+104B9", "U+104E1", "", "", "U+104BA", "U+104E2", "", "", "U+104BB", "U+104E3", "", "",
    "U+104BC", "U+104E4", "", "", "U+104BD", "U+104E5", "", "", "U+104BE", "U+104E6", "", "",
    "U+104BF", "U+104E7", "", "", "U+104C0", "U+104E8", "", "", "U+104C1", "U+104E9", "", "",
    "U+104C2", "U+104EA", "", "", "U+104C3", "U+104EB", "", "", "U+104C4", "U+104EC", "", "",
    "U+104C5", "U+104ED", "", "", "U+104C6", "U+104EE", "", "", "U+104C7", "U+104EF", "", "",
    "U+104C8", "U+104F0", "", "", "U+104C9", "U+104F1", "", "", "U+104CA", "U+104F2", "", "",
    "U+104CB", "U+104F3", "", "", "U+104CC", "U+104F4", "", "", "U+104CD", "U+104F5", "", "",
    "U+104CE", "U+104F6", "", "", "U+104CF", "U+104F7", "", "", "U+104D0", "U+104F8", "", "",
    "U+104D1", "U+104F9", "", "", "U+104D2", "U+104FA", "", "", "U+104D3", "U+104FB", "", "",
    "U+10570", "U+10597", "", "", "U+10571", "U+10598", "", "", "U+10572", "U+10599", "", "",
    "U+10573", "U+1059A", "", "", "U+10574", "U+1059B", "", "", "U+10575", "U+1059C", "", "",
    "U+10576", "U+1059D", "", "", "U+10577", "U+1059E", "", "", "U+10578", "U+1059F", "", "",
    "U+10579", "U+105A0", "", "", "U+1057A", "U+105A1", "", "", "U+1057C", "U+105A3", "", "",
    "U+1057D", "U+105A4", "", "", "U+1057E", "U+105A5", "", "", "U+1057F", "U+105A6", "", "",
    "U+10580", "U+105A7", "", "", "U+10581", "U+105A8", "", "", "U+10582", "U+105A9", "", "",
    "U+10583", "U+105AA", "", "", "U+10584", "U+105AB", "", "", "U+10585", "U+105AC", "", "",
    "U+10586", "U+105AD", "", "", "U+10587", "U+105AE", "", "", "U+10588", "U+105AF", "", "",
    "U+10589", "U+105B0", "", "", "U+1058A", "U+105B1", "", "", "U+1058C", "U+105B3", "", "",
    "U+1058D", "U+105B4", "", "", "U+1058E", "U+105B5", "", "", "U+1058F", "U+105B6", "", "",
    "U+10590", "U+105B7", "", "", "U+10591", "U+105B8", "", "", "U+10592", "U+105B9", "", "",
    "U+10594", "U+105BB", "", "", "U+10595", "U+105BC", "", "", "U+10C80", "U+10CC0", "", "",
    "U+10C81", "U+10CC1", "", "", "U+10C82", "U+10CC2", "", "", "U+10C83", "U+10CC3", "", "",
    "U+10C84", "U+10CC4", "", "", "U+10C85", "U+10CC5", "", "", "U+10C86", "U+10CC6", "", "",
    "U+10C87", "U+10CC7", "", "", "U+10C88", "U+10CC8", "", "", "U+10C89", "U+10CC9", "", "",
    "U+10C8A", "U+10CCA", "", "", "U+10C8B", "U+10CCB", "", "", "U+10C8C", "U+10CCC", "", "",
    "U+10C8D", "U+10CCD", "", "", "U+10C8E", "U+10CCE", "", "", "U+10C8F", "U+10CCF", "", "",
    "U+10C90", "U+10CD0", "", "", "U+10C91", "U+10CD1", "", "", "U+10C92", "U+10CD2", "", "",
    "U+10C93", "U+10CD3", "", "", "U+10C94", "U+10CD4", "", "", "U+10C95", "U+10CD5", "", "",
    "U+10C96", "U+10CD6", "", "", "U+10C97", "U+10CD7", "", "", "U+10C98", "U+10CD8", "", "",
    "U+10C99", "U+10CD9", "", "", "U+10C9A", "U+10CDA", "", "", "U+10C9B", "U+10CDB", "", "",
    "U+10C9C", "U+10CDC", "", "", "U+10C9D", "U+10CDD", "", "", "U+10C9E", "U+10CDE", "", "",
    "U+10C9F", "U+10CDF", "", "", "U+10CA0", "U+10CE0", "", "", "U+10CA1", "U+10CE1", "", "",
    "U+10CA2", "U+10CE2", "", "", "U+10CA3", "U+10CE3", "", "", "U+10CA4", "U+10CE4", "", "",
    "U+10CA5", "U+10CE5", "", "", "U+10CA6", "U+10CE6", "", "", "U+10CA7", "U+10CE7", "", "",
    "U+10CA8", "U+10CE8", "", "", "U+10CA9", "U+10CE9", "", "", "U+10CAA", "U+10CEA", "", "",
    "U+10CAB", "U+10CEB", "", "", "U+10CAC", "U+10CEC", "", "", "U+10CAD", "U+10CED", "", "",
    "U+10CAE", "U+10CEE", "", "", "U+10CAF", "U+10CEF", "", "", "U+10CB0", "U+10CF0", "", "",
    "U+10CB1", "U+10CF1", "", "", "U+10CB2", "U+10CF2", "", "", "U+118A0", "U+118C0", "", "",
    "U+118A1", "U+118C1", "", "", "U+118A2", "U+118C2", "", "", "U+118A3", "U+118C3", "", "",
    "U+118A4", "U+118C4", "", "", "U+118A5", "U+118C5", "", "", "U+118A6", "U+118C6", "", "",
    "U+118A7", "U+118C7", "", "", "U+118A8", "U+118C8", "", "", "U+118A9", "U+118C9", "", "",
    "U+118AA", "U+118CA", "", "", "U+118AB", "U+118CB", "", "", "U+118AC", "U+118CC", "", "",
    "U+118AD", "U+118CD", "", "", "U+118AE", "U+118CE", "", "", "U+118AF", "U+118CF", "", "",
    "U+118B0", "U+118D0", "", "", "U+118B1", "U+118D1", "", "", "U+118B2", "U+118D2", "", "",
    "U+118B3", "U+118D3", "", "", "U+118B4", "U+118D4", "", "", "U+118B5", "U+118D5", "", "",
    "U+118B6", "U+118D6", "", "", "U+118B7", "U+118D7", "", "", "U+118B8", "U+118D8", "", "",
    "U+118B9", "U+118D9", "", "", "U+118BA", "U+118DA", "", "", "U+118BB", "U+118DB", "", "",
    "U+118BC", "U+118DC", "", "", "U+118BD", "U+118DD", "", "", "U+118BE", "U+118DE", "", "",
    "U+118BF", "U+118DF", "", "", "U+16E40", "U+16E60", "", "", "U+16E41", "U+16E61", "", "",
    "U+16E42", "U+16E62", "", "", "U+16E43", "U+16E63", "", "", "U+16E44", "U+16E64", "", "",
    "U+16E45", "U+16E65", "", "", "U+16E46", "U+16E66", "", "", "U+16E47", "U+16E67", "", "",
    "U+16E48", "U+16E68", "", "", "U+16E49", "U+16E69", "", "", "U+16E4A", "U+16E6A", "", "",
    "U+16E4B", "U+16E6B", "", "", "U+16E4C", "U+16E6C", "", "", "U+16E4D", "U+16E6D", "", "",
    "U+16E4E", "U+16E6E", "", "", "U+16E4F", "U+16E6F", "", "", "U+16E50", "U+16E70", "", "",
    "U+16E51", "U+16E71", "", "", "U+16E52", "U+16E72", "", "", "U+16E53", "U+16E73", "", "",
    "U+16E54", "U+16E74", "", "", "U+16E55", "U+16E75", "", "", "U+16E56", "U+16E76", "", "",
    "U+16E57", "U+16E77", "", "", "U+16E58", "U+16E78", "", "", "U+16E59", "U+16E79", "", "",
    "U+16E5A", "U+16E7A", "", "", "U+16E5B", "U+16E7B", "", "", "U+16E5C", "U+16E7C", "", "",
    "U+16E5D", "U+16E7D", "", "", "U+16E5E", "U+16E7E", "", "", "U+16E5F", "U+16E7F", "", "",
    "U+1E900", "U+1E922", "", "", "U+1E901", "U+1E923", "", "", "U+1E902", "U+1E924", "", "",
    "U+1E903", "U+1E925", "", "", "U+1E904", "U+1E926", "", "", "U+1E905", "U+1E927", "", "",
    "U+1E906", "U+1E928", "", "", "U+1E907", "U+1E929", "", "", "U+1E908", "U+1E92A", "", "",
    "U+1E909", "U+1E92B", "", "", "U+1E90A", "U+1E92C", "", "", "U+1E90B", "U+1E92D", "", "",
    "U+1E90C", "U+1E92E", "", "", "U+1E90D", "U+1E92F", "", "", "U+1E90E", "U+1E930", "", "",
    "U+1E90F", "U+1E931", "", "", "U+1E910", "U+1E932", "", "", "U+1E911", "U+1E933", "", "",
    "U+1E912", "U+1E934", "", "", "U+1E913", "U+1E935", "", "", "U+1E914", "U+1E936", "", "",
    "U+1E915", "U+1E937", "", "", "U+1E916", "U+1E938", "", "", "U+1E917", "U+1E939", "", "",
    "U+1E918", "U+1E93A", "", "", "U+1E919", "U+1E93B", "", "", "U+1E91A", "U+1E93C", "", "",
    "U+1E91B", "U+1E93D", "", "", "U+1E91C", "U+1E93E", "", "", "U+1E91D", "U+1E93F", "", "",
    "U+1E91E", "U+1E940", "", "", "U+1E91F", "U+1E941", "", "", "U+1E920", "U+1E942", "", "",
    "U+1E921", "U+1E943", "", ""
  >>

\* str.upper() of every character it changes, in the same layout
UpperMapping ==
  <<
    "a", "A", "", "", "b", "B", "", "", "c", "C", "", "", "d", "D", "", "", "e", "E", "", "",
    "f", "F", "", "", "g", "G", "", "", "h", "H", "", "", "i", "I", "", "", "j", "J", "", "",
    "k", "K", "", "", "l", "L", "", "", "m", "M", "", "", "n", "N", "", "", "o", "O", "", "",
    "p", "P", "", "", "q", "Q", "", "", "r", "R", "", "", "s", "S", "", "", "t", "T", "", "",
    "u", "U", "", "", "v", "V", "", "", "w", "W", "", "", "x", "X", "", "", "y", "Y", "", "",
    "z", "Z", "", "", "U+00B5", "U+039C", "", "", "U+00DF", "S", "S", "",
    "U+00E0", "U+00C0", "", "", "U+00E1", "U+00C1", "", "", "U+00E2", "U+00C2", "", "",
    "U+00E3", "U+00C3", "", "", "U+00E4", "U+00C4", "", "", "U+00E5", "U+00C5", "", "",
    "U+00E6", "U+00C6", "", "", "U+00E7", "U+00C7", "", "", "U+00E8", "U+00C8", "", "",
    "U+00E9", "U+00C9", "", "", "U+00EA", "U+00CA", "", "", "U+00EB", "U+00CB", "", "",
    "U+00EC", "U+00CC", "", "", "U+00ED", "U+00CD", "", "", "U+00EE", "U+00CE", "", "",
    "U+00EF", "U+00CF", "", "", "U+00F0", "U+00D0", "", "", "U+00F1", "U+00D1", "", "",
    "U+00F2", "U+00D2", "", "", "U+00F3", "U+00D3", "", "", "U+00F4", "U+00D4", "", "",
    "U+00F5", "U+00D5", "", "", "U+00F6", "U+00D6", "", "", "U+00F8", "U+00D8", "", "",
    "U+00F9", "U+00D9", "", "", "U+00FA", "U+00DA", "", "", "U+00FB", "U+00DB", "", "",
    "U+00FC", "U+00DC", "", "", "U+00FD", "U+00DD", "", "", "U+00FE", "U+00DE", "", "",
    "U+00FF", "U+0178", "", "", "U+0101", "U+0100", "", "", "U+0103", "U+0102", "", "",
    "U+0105", "U+0104", "", "", "U+0107", "U+0106", "", "", "U+0109", "U+0108", "", "",
    "U+010B", "U+010A", "", "", "U+010D", "U+010C", "", "", "U+010F", "U+010E", "", "",
    "U+0111", "U+0110", "", "", "U+0113", "U+0112", "", "", "U+0115", "U+0114", "", "",
    "U+0117", "U+0116", "", "", "U+0119", "U+0118", "", "", "U+011B", "U+011A", "", "",
    "U+011D", "U+011C", "", "", "U+011F", "U+011E", "", "", "U+0121", "U+0120", "", "",
    "U+0123", "U+0122", "", "", "U+0125", "U+0124", "", "", "U+0127", "U+0126", "", "",
    "U+0129", "U+0128", "", "", "U+012B", "U+012A", "", "", "U+012D", "U+012C", "", "",
    "U+012F", "U+012E", "", "", "U+0131", "I", "", "", "U+0133", "U+0132", "", "",
    "U+0135", "U+0134", "", "", "U+0137", "U+0136", "", "", "U+013A", "U+0139", "", "",
    "U+013C", "U+013B", "", "", "U+013E", "U+013D", "", "", "U+0140", "U+013F", "", "",
    "U+0142", "U+0141", "", "", "U+0144", "U+0143", "", "", "U+0146", "U+0145", "", "",
    "U+0148", "U+0147", "", "", "U+0149", "U+02BC", "N", "", "U+014B", "U+014A", "", "",
    "U+014D", "U+014C", "", "", "U+014F", "U+014E", "", "", "U+0151", "U+0150", "", "",
    "U+0153", "U+0152", "", "", "U+0155", "U+0154", "", "", "U+0157", "U+0156", "", "",
    "U+0159", "U+0158", "", "", "U+015B", "U+015A", "", "", "U+015D", "U+015C", "", "",
    "U+015F", "U+015E", "", "", "U+0161", "U+0160", "", "", "U+0163", "U+0162", "", "",
    "U+0165", "U+0164", "", "", "U+0167", "U+0166", "", "", "U+0169", "U+0168", "", "",
    "U+016B", "U+016A", "", "", "U+016D", "U+016C", "", "", "U+016F", "U+016E", "", "",
    "U+0171", "U+0170", "", "", "U+0173", "U+0172", "", "", "U+0175", "U+0174", "", "",
    "U+0177", "U+0176", "", "", "U+017A", "U+0179", "", "", "U+017C", "U+017B", "", "",
    "U+017E", "U+017D", "", "", "U+017F", "S", "", "", "U+0180", "U+0243", "", "",
    "U+0183", "U+0182", "", "", "U+0185", "U+0184", "", "", "U+0188", "U+0187", "", "",
    "U+018C", "U+018B", "", "", "U+0192", "U+0191", "", "", "U+0195", "U+01F6", "", "",
    "U+0199", "U+0198", "", "", "U+019A", "U+023D", "", "", "U+019E", "U+0220", "", "",
    "U+01A1", "U+01A0", "", "", "U+01A3", "U+01A2", "", "", "U+01A5", "U+01A4", "", "",
    "U+01A8", "U+01A7", "", "", "U+01AD", "U+01AC", "", "", "U+01B0", "U+01AF", "", "",
    "U+01B4", "U+01B3", "", "", "U+01B6", "U+01B5", "", "", "U+01B9", "U+01B8", "", "",
    "U+01BD", "U+01BC", "", "", "U+01BF", "U+01F7", "", "", "U+01C5", "U+01C4", "", "",
    "U+01C6", "U+01C4", "", "", "U+01C8", "U+01C7", "", "", "U+01C9", "U+01C7", "", "",
    "U+01CB", "U+01CA", "", "", "U+01CC", "U+01CA", "", "", "U+01CE", "U+01CD", "", "",
    "U+01D0", "U+01CF", "", "", "U+01D2", "U+01D1", "", "", "U+01D4", "U+01D3", "", "",
    "U+01D6", "U+01D5", "", "", "U+01D8", "U+01D7", "", "", "U+01DA", "U+01D9", "", "",
    "U+01DC", "U+01DB", "", "", "U+01DD", "U+018E", "", "", "U+01DF", "U+01DE", "", "",
    "U+01E1", "U+01E0", "", "", "U+01E3", "U+01E2", "", "", "U+01E5", "U+01E4", "", "",
    "U+01E7", "U+01E6", "", "", "U+01E9", "U+01E8", "", "", "U+01EB", "U+01EA", "", "",
    "U+01ED", "U+01EC", "", "", "U+01EF", "U+01EE", "", "", "U+01F0", "J", "U+030C", "",
    "U+01F2", "U+01F1", "", "", "U+01F3", "U+01F1", "", "", "U+01F5", "U+01F4", "", "",
    "U+01F9", "U+01F8", "", "", "U+01FB", "U+01FA", "", "", "U+01FD", "U+01FC", "", "",
    "U+01FF", "U+01FE", "", "", "U+0201", "U+0200", "", "", "U+0203", "U+0202", "", "",
    "U+0205", "U+0204", "", "", "U+0207", "U+0206", "", "", "U+0209", "U+0208", "", "",
    "U+020B", "U+020A", "", "", "U+020D", "U+020C", "", "", "U+020F", "U+020E", "", "",
    "U+0211", "U+0210", "", "", "U+0213", "U+0212", "", "", "U+0215", "U+0214", "", "",
    "U+0217", "U+0216", "", "", "U+0219", "U+0218", "", "", "U+021B", "U+021A", "", "",
    "U+021D", "U+021C", "", "", "U+021F", "U+021E", "", "", "U+0223", "U+0222", "", "",
    "U+0225", "U+0224", "", "", "U+0227", "U+0226", "", "", "U+0229", "U+0228", "", "",
    "U+022B", "U+022A", "", "", "U+022D", "U+022C", "", "", "U+022F", "U+022E", "", "",
    "U+0231", "U+0230", "", "", "U+0233", "U+0232", "", "", "U+023C", "U+023B", "", "",
    "U+023F", "U+2C7E", "", "", "U+0240", "U+2C7F", "", "", "U+0242", "U+0241", "", "",
    "U+0247", "U+0246", "", "", "U+0249", "U+0248", "", "", "U+024B", "U+024A", "", "",
    "U+024D", "U+024C", "", "", "U+024F", "U+024E", "", "", "U+0250", "U+2C6F", "", "",
    "U+0251", "U+2C6D", "", "", "U+0252", "U+2C70", "", "", "U+0253", "U+0181", "", "",
    "U+0254", "U+0186", "", "", "U+0256", "U+0189", "", "", "U+0257", "U+018A", "", "",
    "U+0259", "U+018F", "", "", "U+025B", "U+0190", "", "", "U+025C", "U+A7AB", "", "",
    "U+0260", "U+0193", "", "", "U+0261", "U+A7AC", "", "", "U+0263", "U+0194", "", "",
    "U+0265", "U+A78D", "", "", "U+0266", "U+A7AA", "", "", "U+0268", "U+0197", "", "",
    "U+0269", "U+0196", "", "", "U+026A", "U+A7AE", "", "", "U+026B", "U+2C62", "", "",
    "U+026C", "U+A7AD", "", "", "U+026F", "U+019C", "", "", "U+0271", "U+2C6E", "", "",
    "U+0272", "U+019D", "", "", "U+0275", "U+019F", "", "", "U+027D", "U+2C64", "", "",
    "U+0280", "U+01A6", "", "", "U+0282", "U+A7C5", "", "", "U+0283", "U+01A9", "", "",
    "U+0287", "U+A7B1", "", "", "U+0288", "U+01AE", "", "", "U+0289", "U+0244", "", "",
    "U+028A", "U+01B1", "", "", "U+028B", "U+01B2", "", "", "U+028C", "U+0245", "", "",
    "U+0292", "U+01B7", "", "", "U+029D", "U+A7B2", "", "", "U+029E", "U+A7B0", "", "",
    "U+0345", "U+0399", "", "", "U+0371", "U+0370", "", "", "U+0373", "U+0372", "", "",
    "U+0377", "U+0376", "", "", "U+037B", "U+03FD", "", "", "U+037C", "U+03FE", "", "",
    "U+037D", "U+03FF", "", "", "U+0390", "U+0399", "U+0308", "U+0301",
    "U+03AC", "U+0386", "", "", "U+03AD", "U+0388", "", "", "U+03AE", "U+0389", "", "",
    "U+03AF", "U+038A", "", "", "U+03B0", "U+03A5", "U+0308", "U+0301",
    "U+03B1", "U+0391", "", "", "U+03B2", "U+0392", "", "", "U+03B3", "U+0393", "", "",
    "U+03B4", "U+0394", "", "", "U+03B5", "U+0395", "", "", "U+03B6", "U+0396", "", "",
    "U+03B7", "U+0397", "", "", "U+03B8", "U+0398", "", "", "U+03B9", "U+0399", "", "",
    "U+03BA", "U+039A", "", "", "U+03BB", "U+039B", "", "", "U+03BC", "U+039C", "", "",
    "U+03BD", "U+039D", "", "", "U+03BE", "U+039E", "", "", "U+03BF", "U+039F", "", "",
    "U+03C0", "U+03A0", "", "", "U+03C1", "U+03A1", "", "", "U+03C2", "U+03A3", "", "",
    "U+03C3", "U+03A3", "", "", "U+03C4", "U+03A4", "", "", "U+03C5", "U+03A5", "", "",
    "U+03C6", "U+03A6", "", "", "U+03C7", "U+03A7", "", "", "U+03C8", "U+03A8", "", "",
    "U+03C9", "U+03A9", "", "", "U+03CA", "U+03AA", "", "", "U+03CB", "U+03AB", "", "",
    "U+03CC", "U+038C", "", "", "U+03CD", "U+038E", "", "", "U+03CE", "U+038F", "", "",
    "U+03D0", "U+0392", "", "", "U+03D1", "U+0398", "", "", "U+03D5", "U+03A6", "", "",
    "U+03D6", "U+03A0", "", "", "U+03D7", "U+03CF", "", "", "U+03D9", "U+03D8", "", "",
    "U+03DB", "U+03DA", "", "", "U+03DD", "U+03DC", "", "", "U+03DF", "U+03DE", "", "",
    "U+03E1", "U+03E0", "", "", "U+03E3", "U+03E2", "", "", "U+03E5", "U+03E4", "", "",
    "U+03E7", "U+03E6", "", "", "U+03E9", "U+03E8", "", "", "U+03EB", "U+03EA", "", "",
    "U+03ED", "U+03EC", "", "", "U+03EF", "U+03EE", "", "", "U+03F0", "U+039A", "", "",
    "U+03F1", "U+03A1", "", "", "U+03F2", "U+03F9", "", "", "U+03F3", "U+037F", "", "",
    "U+03F5", "U+0395", "", "", "U+03F8", "U+03F7", "", "", "U+03FB", "U+03FA", "", "",
    "U+0430", "U+0410", "", "", "U+0431", "U+0411", "", "", "U+0432", "U+0412", "", "",
    "U+0433", "U+0413", "", "", "U+0434", "U+0414", "", "", "U+0435", "U+0415", "", "",
    "U+0436", "U+0416", "", "", "U+0437", "U+0417", "", "", "U+0438", "U+0418", "", "",
    "U+0439", "U+0419", "", "", "U+043A", "U+041A", "", "", "U+043B", "U+041B", "", "",
    "U+043C", "U+041C", "", "", "U+043D", "U+041D", "", "", "U+043E", "U+041E", "", "",
    "U+043F", "U+041F", "", "", "U+0440", "U+0420", "", "", "U+0441", "U+0421", "", "",
    "U+0442", "U+0422", "", "", "U+0443", "U+0423", "", "", "U+0444", "U+0424", "", "",
    "U+0445", "U+0425", "", "", "U+0446", "U+0426", "", "", "U+0447", "U+0427", "", "",
    "U+0448", "U+0428", "", "", "U+0449", "U+0429", "", "", "U+044A", "U+042A", "", "",
    "U+044B", "U+042B", "", "", "U+044C", "U+042C", "", "", "U+044D", "U+042D", "", "",
    "U+044E", "U+042E", "", "", "U+044F", "U+042F", "", "", "U+0450", "U+0400", "", "",
    "U+0451", "U+0401", "", "", "U+0452", "U+0402", "", "", "U+0453", "U+0403", "", "",
    "U+0454", "U+0404", "", "", "U+0455", "U+0405", "", "", "U+0456", "U+0406", "", "",
    "U+0457", "U+0407", "", "", "U+0458", "U+0408", "", "", "U+0459", "U+0409", "", "",
    "U+045A", "U+040A", "", "", "U+045B", "U+040B", "", "", "U+045C", "U+040C", "", "",
    "U+045D", "U+040D", "", "", "U+045E", "U+040E", "", "", "U+045F", "U+040F", "", "",
    "U+0461", "U+0460", "", "", "U+0463", "U+0462", "", "", "U+0465", "U+0464", "", "",
    "U+0467", "U+0466", "", "", "U+0469", "U+0468", "", "", "U+046B", "U+046A", "", "",
    "U+046D", "U+046C", "", "", "U+046F", "U+046E", "", "", "U+0471", "U+0470", "", "",
    "U+0473", "U+0472", "", "", "U+0475", "U+0474", "", "", "U+0477", "U+0476", "", "",
    "U+0479", "U+0478", "", "", "U+047B", "U+047A", "", "", "U+047D", "U+047C", "", "",
    "U+047F", "U+047E", "", "", "U+0481", "U+0480", "", "", "U+048B", "U+048A", "", "",
    "U+048D", "U+048C", "", "", "U+048F", "U+048E", "", "", "U+0491", "U+0490", "", "",
    "U+0493", "U+0492", "", "", "U+0495", "U+0494", "", "", "U+0497", "U+0496", "", "",
    "U+0499", "U+0498", "", "", "U+049B", "U+049A", "", "", "U+049D", "U+049C", "", "",
    "U+049F", "U+049E", "", "", "U+04A1", "U+04A0", "", "", "U+04A3", "U+04A2", "", "",
    "U+04A5", "U+04A4", "", "", "U+04A7", "U+04A6", "", "", "U+04A9", "U+04A8", "", "",
    "U+04AB", "U+04AA", "", "", "U+04AD", "U+04AC", "", "", "U+04AF", "U+04AE", "", "",
    "U+04B1", "U+04B0", "", "", "U+04B3", "U+04B2", "", "", "U+04B5", "U+04B4", "", "",
    "U+04B7", "U+04B6", "", "", "U+04B9", "U+04B8", "", "", "U+04BB", "U+04BA", "", "",
    "U+04BD", "U+04BC", "", "", "U+04BF", "U+04BE", "", "", "U+04C2", "U+04C1", "", "",
    "U+04C4", "U+04C3", "", "", "U+04C6", "U+04C5", "", "", "U+04C8", "U+04C7", "", "",
    "U+04CA", "U+04C9", "", "", "U+04CC", "U+04CB", "", "", "U+04CE", "U+04CD", "", "",
    "U+04CF", "U+04C0", "", "", "U+04D1", "U+04D0", "", "", "U+04D3", "U+04D2", "", "",
    "U+04D5", "U+04D4", "", "", "U+04D7", "U+04D6", "", "", "U+04D9", "U+04D8", "", "",
    "U+04DB", "U+04DA", "", "", "U+04DD", "U+04DC", "", "", "U+04DF", "U+04DE", "", "",
    "U+04E1", "U+04E0", "", "", "U+04E3", "U+04E2", "", "", "U+04E5", "U+04E4", "", "",
    "U+04E7", "U+04E6", "", "", "U+04E9", "U+04E8", "", "", "U+04EB", "U+04EA", "", "",
    "U+04ED", "U+04EC", "", "", "U+04EF", "U+04EE", "", "", "U+04F1", "U+04F0", "", "",
    "U+04F3", "U+04F2", "", "", "U+04F5", "U+04F4", "", "", "U+04F7", "U+04F6", "", "",
    "U+04F9", "U+04F8", "", "", "U+04FB", "U+04FA", "", "", "U+04FD", "U+04FC", "", "",
    "U+04FF", "U+04FE", "", "", "U+0501", "U+0500", "", "", "U+0503", "U+0502", "", "",
    "U+0505", "U+0504", "", "", "U+0507", "U+0506", "", "", "U+0509", "U+0508", "", "",
    "U+050B", "U+050A", "", "", "U+050D", "U+050C", "", "", "U+050F", "U+050E", "", "",
    "U+0511", "U+0510", "", "", "U+0513", "U+0512", "", "", "U+0515", "U+0514", "", "",
    "U+0517", "U+0516", "", "", "U+0519", "U+0518", "", "", "U+051B", "U+051A", "", "",
    "U+051D", "U+051C", "", "", "U+051F", "U+051E", "", "", "U+0521", "U+0520", "", "",
    "U+0523", "U+0522", "", "", "U+0525", "U+0524", "", "", "U+0527", "U+0526", "", "",
    "U+0529", "U+0528", "", "", "U+052B", "U+052A", "", "", "U+052D", "U+052C", "", "",
    "U+052F", "U+052E", "", "", "U+0561", "U+0531", "", "", "U+0562", "U+0532", "", "",
    "U+0563", "U+0533", "", "", "U+0564", "U+0534", "", "", "U+0565", "U+0535", "", "",
    "U+0566", "U+0536", "", "", "U+0567", "U+0537", "", "", "U+0568", "U+0538", "", "",
    "U+0569", "U+0539", "", "", "U+056A", "U+053A", "", "", "U+056B", "U+053B", "", "",
    "U+056C", "U+053C", "", "", "U+056D", "U+053D", "", "", "U+056E", "U+053E", "", "",
    "U+056F", "U+053F", "", "", "U+0570", "U+0540", "", "", "U+0571", "U+0541", "", "",
    "U+0572", "U+0542", "", "", "U+0573", "U+0543", "", "", "U+0574", "U+0544", "", "",
    "U+0575", "U+0545", "", "", "U+0576", "U+0546", "", "", "U+0577", "U+0547", "", "",
    "U+0578", "U+0548", "", "", "U+0579", "U+0549", "", "", "U+057A", "U+054A", "", "",
    "U+057B", "U+054B", "", "", "U+057C", "U+054C", "", "", "U+057D", "U+054D", "", "",
    "U+057E", "U+054E", "", "", "U+057F", "U+054F", "", "", "U+0580", "U+0550", "", "",
    "U+0581", "U+0551", "", "", "U+0582", "U+0552", "", "", "U+0583", "U+0553", "", "",
    "U+0584", "U+0554", "", "", "U+0585", "U+0555", "", "", "U+0586", "U+0556", "", "",
    "U+0587", "U+0535", "U+0552", "", "U+10D0", "U+1C90", "", "", "U+10D1", "U+1C91", "", "",
    "U+10D2", "U+1C92", "", "", "U+10D3", "U+1C93", "", "", "U+10D4", "U+1C94", "", "",
    "U+10D5", "U+1C95", "", "", "U+10D6", "U+1C96", "", "", "U+10D7", "U+1C97", "", "",
    "U+10D8", "U+1C98", "", "", "U+10D9", "U+1C99", "", "", "U+10DA", "U+1C9A", "", "",
    "U+10DB", "U+1C9B", "", "", "U+10DC", "U+1C9C", "", "", "U+10DD", "U+1C9D", "", "",
    "U+10DE", "U+1C9E", "", "", "U+10DF", "U+1C9F", "", "", "U+10E0", "U+1CA0", "", "",
    "U+10E1", "U+1CA1", "", "", "U+10E2", "U+1CA2", "", "", "U+10E3", "U+1CA3", "", "",
    "U+10E4", "U+1CA4", "", "", "U+10E5", "U+1CA5", "", "", "U+10E6", "U+1CA6", "", "",
    "U+10E7", "U+1CA7", "", "", "U+10E8", "U+1CA8", "", "", "U+10E9", "U+1CA9", "", "",
    "U+10EA", "U+1CAA", "", "", "U+10EB", "U+1CAB", "", "", "U+10EC", "U+1CAC", "", "",
    "U+10ED", "U+1CAD", "", "", "U+10EE", "U+1CAE", "", "", "U+10EF", "U+1CAF", "", "",
    "U+10F0", "U+1CB0", "", "", "U+10F1", "U+1CB1", "", "", "U+10F2", "U+1CB2", "", "",
    "U+10F3", "U+1CB3", "", "", "U+10F4", "U+1CB4", "", "", "U+10F5", "U+1CB5", "", "",
    "U+10F6", "U+1CB6", "", "", "U+10F7", "U+1CB7", "", "", "U+10F8", "U+1CB8", "", "",
    "U+10F9", "U+1CB9", "", "", "U+10FA", "U+1CBA", "", "", "U+10FD", "U+1CBD", "", "",
    "U+10FE", "U+1CBE", "", "", "U+10FF", "U+1CBF", "", "", "U+13F8", "U+13F0", "", "",
    "U+13F9", "U+13F1", "", "", "U+13FA", "U+13F2", "", "", "U+13FB", "U+13F3", "", "",
    "U+13FC", "U+13F4", "", "", "U+13FD", "U+13F5", "", "", "U+1C80", "U+0412", "", "",
    "U+1C81", "U+0414", "", "", "U+1C82", "U+041E", "", "", "U+1C83", "U+0421", "", "",
    "U+1C84", "U+0422", "", "", "U+1C85", "U+0422", "", "", "U+1C86", "U+042A", "", "",
    "U+1C87", "U+0462", "", "", "U+1C88", "U+A64A", "", "", "U+1D79", "U+A77D", "", "",
    "U+1D7D", "U+2C63", "", "", "U+1D8E", "U+A7C6", "", "", "U+1E01", "U+1E00", "", "",
    "U+1E03", "U+1E02", "", "", "U+1E05", "U+1E04", "", "", "U+1E07", "U+1E06", "", "",
    "U+1E09", "U+1E08", "", "", "U+1E0B", "U+1E0A", "", "", "U+1E0D", "U+1E0C", "", "",
    "U+1E0F", "U+1E0E", "", "", "U+1E11", "U+1E10", "", "", "U+1E13", "U+1E12", "", "",
    "U+1E15", "U+1E14", "", "", "U+1E17", "U+1E16", "", "", "U+1E19", "U+1E18", "", "",
    "U+1E1B", "U+1E1A", "", "", "U+1E1D", "U+1E1C", "", "", "U+1E1F", "U+1E1E", "", "",
    "U+1E21", "U+1E20", "", "", "U+1E23", "U+1E22", "", "", "U+1E25", "U+1E24", "", "",
    "U+1E27", "U+1E26", "", "", "U+1E29", "U+1E28", "", "", "U+1E2B", "U+1E2A", "", "",
    "U+1E2D", "U+1E2C", "", "", "U+1E2F", "U+1E2E", "", "", "U+1E31", "U+1E30", "", "",
    "U+1E33", "U+1E32", "", "", "U+1E35", "U+1E34", "", "", "U+1E37", "U+1E36", "", "",
    "U+1E39", "U+1E38", "", "", "U+1E3B", "U+1E3A", "", "", "U+1E3D", "U+1E3C", "", "",
    "U+1E3F", "U+1E3E", "", "", "U+1E41", "U+1E40", "", "", "U+1E43", "U+1E42", "", "",
    "U+1E45", "U+1E44", "", "", "U+1E47", "U+1E46", "", "", "U+1E49", "U+1E48", "", "",
    "U+1E4B", "U+1E4A", "", "", "U+1E4D", "U+1E4C", "", "", "U+1E4F", "U+1E4E", "", "",
    "U+1E51", "U+1E50", "", "", "U+1E53", "U+1E52", "", "", "U+1E55", "U+1E54", "", "",
    "U+1E57", "U+1E56", "", "", "U+1E59", "U+1E58", "", "", "U+1E5B", "U+1E5A", "", "",
    "U+1E5D", "U+1E5C", "", "", "U+1E5F", "U+1E5E", "", "", "U+1E61", "U+1E60", "", "",
    "U+1E63", "U+1E62", "", "", "U+1E65", "U+1E64", "", "", "U+1E67", "U+1E66", "", "",
    "U+1E69", "U+1E68", "", "", "U+1E6B", "U+1E6A", "", "", "U+1E6D", "U+1E6C", "", "",
    "U+1E6F", "U+1E6E", "", "", "U+1E71", "U+1E70", "", "", "U+1E73", "U+1E72", "", "",
    "U+1E75", "U+1E74", "", "", "U+1E77", "U+1E76", "", "", "U+1E79", "U+1E78", "", "",
    "U+1E7B", "U+1E7A", "", "", "U+1E7D", "U+1E7C", "", "", "U+1E7F", "U+1E7E", "", "",
    "U+1E81", "U+1E80", "", "", "U+1E83", "U+1E82", "", "", "U+1E85", "U+1E84", "", "",
    "U+1E87", "U+1E86", "", "", "U+1E89", "U+1E88", "", "", "U+1E8B", "U+1E8A", "", "",
    "U+1E8D", "U+1E8C", "", "", "U+1E8F", "U+1E8E", "", "", "U+1E91", "U+1E90", "", "",
    "U+1E93", "U+1E92", "", "", "U+1E95", "U+1E94", "", "", "U+1E96", "H", "U+0331", "",
    "U+1E97", "T", "U+0308", "", "U+1E98", "W", "U+030A", "", "U+1E99", "Y", "U+030A", "",
    "U+1E9A", "A", "U+02BE", "", "U+1E9B", "U+1E60", "", "", "U+1EA1", "U+1EA0", "", "",
    "U+1EA3", "U+1EA2", "", "", "U+1EA5", "U+1EA4", "", "", "U+1EA7", "U+1EA6", "", "",
    "U+1EA9", "U+1EA8", "", "", "U+1EAB", "U+1EAA", "", "", "U+1EAD", "U+1EAC", "", "",
    "U+1EAF", "U+1EAE", "", "", "U+1EB1", "U+1EB0", "", "", "U+1EB3", "U+1EB2", "", "",
    "U+1EB5", "U+1EB4", "", "", "U+1EB7", "U+1EB6", "", "", "U+1EB9", "U+1EB8", "", "",
    "U+1EBB", "U+1EBA", "", "", "U+1EBD", "U+1EBC", "", "", "U+1EBF", "U+1EBE", "", "",
    "U+1EC1", "U+1EC0", "", "", "U+1EC3", "U+1EC2", "", "", "U+1EC5", "U+1EC4", "", "",
    "U+1EC7", "U+1EC6", "", "", "U+1EC9", "U+1EC8", "", "", "U+1ECB", "U+1ECA", "", "",
    "U+1ECD", "U+1ECC", "", "", "U+1ECF", "U+1ECE", "", "", "U+1ED1", "U+1ED0", "", "",
    "U+1ED3", "U+1ED2", "", "", "U+1ED5", "U+1ED4", "", "", "U+1ED7", "U+1ED6", "", "",
    "U+1ED9", "U+1ED8", "", "", "U+1EDB", "U+1EDA", "", "", "U+1EDD", "U+1EDC", "", "",
    "U+1EDF", "U+1EDE", "", "", "U+1EE1", "U+1EE0", "", "", "U+1EE3", "U+1EE2", "", "",
    "U+1EE5", "U+1EE4", "", "", "U+1EE7", "U+1EE6", "", "", "U+1EE9", "U+1EE8", "", "",
    "U+1EEB", "U+1EEA", "", "", "U+1EED", "U+1EEC", "", "", "U+1EEF", "U+1EEE", "", "",
    "U+1EF1", "U+1EF0", "", "", "U+1EF3", "U+1EF2", "", "", "U+1EF5", "U+1EF4", "", "",
    "U+1EF7", "U+1EF6", "", "", "U+1EF9", "U+1EF8", "", "", "U+1EFB", "U+1EFA", "", "",
    "U+1EFD", "U+1EFC", "", "", "U+1EFF", "U+1EFE", "", "", "U+1F00", "U+1F08", "", "",
    "U+1F01", "U+1F09", "", "", "U+1F02", "U+1F0A", "", "", "U+1F03", "U+1F0B", "", "",
    "U+1F04", "U+1F0C", "", "", "U+1F05", "U+1F0D", "", "", "U+1F06", "U+1F0E", "", "",
    "U+1F07", "U+1F0F", "", "", "U+1F10", "U+1F18", "", "", "U+1F11", "U+1F19", "", "",
    "U+1F12", "U+1F1A", "", "", "U+1F13", "U+1F1B", "", "", "U+1F14", "U+1F1C", "", "",
    "U+1F15", "U+1F1D", "", "", "U+1F20", "U+1F28", "", "", "U+1F21", "U+1F29", "", "",
    "U+1F22", "U+1F2A", "", "", "U+1F23", "U+1F2B", "", "", "U+1F24", "U+1F2C", "", "",
    "U+1F25", "U+1F2D", "", "", "U+1F26", "U+1F2E", "", "", "U+1F27", "U+1F2F", "", "",
    "U+1F30", "U+1F38", "", "", "U+1F31", "U+1F39", "", "", "U+1F32", "U+1F3A", "", "",
    "U+1F33", "U+1F3B", "", "", "U+1F34", "U+1F3C", "", "", "U+1F35", "U+1F3D", "", "",
    "U+1F36", "U+1F3E", "", "", "U+1F37", "U+1F3F", "", "", "U+1F40", "U+1F48", "", "",
    "U+1F41", "U+1F49", "", "", "U+1F42", "U+1F4A", "", "", "U+1F43", "U+1F4B", "", "",
    "U+1F44", "U+1F4C", "", "", "U+1F45", "U+1F4D", "", "", "U+1F50", "U+03A5", "U+0313", "",
    "U+1F51", "U+1F59", "", "", "U+1F52", "U+03A5", "U+0313", "U+0300",
    "U+1F53", "U+1F5B", "", "", "U+1F54", "U+03A5", "U+0313", "U+0301",
    "U+1F55", "U+1F5D", "", "", "U+1F56", "U+03A5", "U+0313", "U+0342",
    "U+1F57", "U+1F5F", "", "", "U+1F60", "U+1F68", "", "", "U+1F61", "U+1F69", "", "",
    "U+1F62", "U+1F6A", "", "", "U+1F63", "U+1F6B", "", "", "U+1F64", "U+1F6C", "", "",
    "U+1F65", "U+1F6D", "", "", "U+1F66", "U+1F6E", "", "", "U+1F67", "U+1F6F", "", "",
    "U+1F70", "U+1FBA", "", "", "U+1F71", "U+1FBB", "", "", "U+1F72", "U+1FC8", "", "",
    "U+1F73", "U+1FC9", "", "", "U+1F74", "U+1FCA", "", "", "U+1F75", "U+1FCB", "", "",
    "U+1F76", "U+1FDA", "", "", "U+1F77", "U+1FDB", "", "", "U+1F78", "U+1FF8", "", "",
    "U+1F79", "U+1FF9", "", "", "U+1F7A", "U+1FEA", "", "", "U+1F7B", "U+1FEB", "", "",
    "U+1F7C", "U+1FFA", "", "", "U+1F7D", "U+1FFB", "", "", "U+1F80", "U+1F08", "U+0399", "",
    "U+1F81", "U+1F09", "U+0399", "", "U+1F82", "U+1F0A", "U+0399", "",
    "U+1F83", "U+1F0B", "U+0399", "", "U+1F84", "U+1F0C", "U+0399", "",
    "U+1F85", "U+1F0D", "U+0399", "", "U+1F86", "U+1F0E", "U+0399", "",
    "U+1F87", "U+1F0F", "U+0399", "", "U+1F88", "U+1F08", "U+0399", "",
    "U+1F89", "U+1F09", "U+0399", "", "U+1F8A", "U+1F0A", "U+0399", "",
    "U+1F8B", "U+1F0B", "U+0399", "", "U+1F8C", "U+1F0C", "U+0399", "",
    "U+1F8D", "U+1F0D", "U+0399", "", "U+1F8E", "U+1F0E", "U+0399", "",
    "U+1F8F", "U+1F0F", "U+0399", "", "U+1F90", "U+1F28", "U+0399", "",
    "U+1F91", "U+1F29", "U+0399", "", "U+1F92", "U+1F2A", "U+0399", "",
    "U+1F93", "U+1F2B", "U+0399", "", "U+1F94", "U+1F2C", "U+0399", "",
    "U+1F95", "U+1F2D", "U+0399", "", "U+1F96", "U+1F2E", "U+0399", "",
    "U+1F97", "U+1F2F", "U+0399", "", "U+1F98", "U+1F28", "U+0399", "",
    "U+1F99", "U+1F29", "U+0399", "", "U+1F9A", "U+1F2A", "U+0399", "",
    "U+1F9B", "U+1F2B", "U+0399", "", "U+1F9C", "U+1F2C", "U+0399", "",
    "U+1F9D", "U+1F2D", "U+0399", "", "U+1F9E", "U+1F2E", "U+0399", "",
    "U+1F9F", "U+1F2F", "U+0399", "", "U+1FA0", "U+1F68", "U+0399", "",
    "U+1FA1", "U+1F69", "U+0399", "", "U+1FA2", "U+1F6A", "U+0399", "",
    "U+1FA3", "U+1F6B", "U+0399", "", "U+1FA4", "U+1F6C", "U+0399", "",
    "U+1FA5", "U+1F6D", "U+0399", "", "U+1FA6", "U+1F6E", "U+0399", "",
    "U+1FA7", "U+1F6F", "U+0399", "", "U+1FA8", "U+1F68", "U+0399", "",
    "U+1FA9", "U+1F69", "U+0399", "", "U+1FAA", "U+1F6A", "U+0399", "",
    "U+1FAB", "U+1F6B", "U+0399", "", "U+1FAC", "U+1F6C", "U+0399", "",
    "U+1FAD", "U+1F6D", "U+0399", "", "U+1FAE", "U+1F6E", "U+0399", "",
    "U+1FAF", "U+1F6F", "U+0399", "", "U+1FB0", "U+1FB8", "", "", "U+1FB1", "U+1FB9", "", "",
    "U+1FB2", "U+1FBA", "U+0399", "", "U+1FB3", "U+0391", "U+0399", "",
    "U+1FB4", "U+0386", "U+0399", "", "U+1FB6", "U+0391", "U+0342", "",
    "U+1FB7", "U+0391", "U+0342", "U+0399", "U+1FBC", "U+0391", "U+0399", "",
    "U+1FBE", "U+0399", "", "", "U+1FC2", "U+1FCA", "U+0399", "",
    "U+1FC3", "U+0397", "U+0399", "", "U+1FC4", "U+0389", "U+0399", "",
    "U+1FC6", "U+0397", "U+0342", "", "U+1FC7", "U+0397", "U+0342", "U+0399",
    "U+1FCC", "U+0397", "U+0399", "", "U+1FD0", "U+1FD8", "", "", "U+1FD1", "U+1FD9", "", "",
    "U+1FD2", "U+0399", "U+0308", "U+0300", "U+1FD3", "U+0399", "U+0308", "U+0301",
    "U+1FD6", "U+0399", "U+0342", "", "U+1FD7", "U+0399", "U+0308", "U+0342",
    "U+1FE0", "U+1FE8", "", "", "U+1FE1", "U+1FE9", "", "",
    "U+1FE2", "U+03A5", "U+0308", "U+0300", "U+1FE3", "U+03A5", "U+0308", "U+0301",
    "U+1FE4", "U+03A1", "U+0313", "", "U+1FE5", "U+1FEC", "", "",
    "U+1FE6", "U+03A5", "U+0342", "", "U+1FE7", "U+03A5", "U+0308", "U+0342",
    "U+1FF2", "U+1FFA", "U+0399", "", "U+1FF3", "U+03A9", "U+0399", "",
    "U+1FF4", "U+038F", "U+0399", "", "U+1FF6", "U+03A9", "U+0342", "",
    "U+1FF7", "U+03A9", "U+0342", "U+0399", "U+1FFC", "U+03A9", "U+0399", "",
    "U+214E", "U+2132", "", "", "U+2170", "U+2160", "", "", "U+2171", "U+2161", "", "",
    "U+2172", "U+2162", "", "", "U+2173", "U+2163", "", "", "U+2174", "U+2164", "", "",
    "U+2175", "U+2165", "", "", "U+2176", "U+2166", "", "", "U+2177", "U+2167", "", "",
    "U+2178", "U+2168", "", "", "U+2179", "U+2169", "", "", "U+217A", "U+216A", "", "",
    "U+217B", "U+216B", "", "", "U+217C", "U+216C", "", "", "U+217D", "U+216D", "", "",
    "U+217E", "U+216E", "", "", "U+217F", "U+216F", "", "", "U+2184", "U+2183", "", "",
    "U+24D0", "U+24B6", "", "", "U+24D1", "U+24B7", "", "", "U+24D2", "U+24B8", "", "",
    "U+24D3", "U+24B9", "", "", "U+24D4", "U+24BA", "", "", "U+24D5", "U+24BB", "", "",
    "U+24D6", "U+24BC", "", "", "U+24D7", "U+24BD", "", "", "U+24D8", "U+24BE", "", "",
    "U+24D9", "U+24BF", "", "", "U+24DA", "U+24C0", "", "", "U+24DB", "U+24C1", "", "",
    "U+24DC", "U+24C2", "", "", "U+24DD", "U+24C3", "", "", "U+24DE", "U+24C4", "", "",
    "U+24DF", "U+24C5", "", "", "U+24E0", "U+24C6", "", "", "U+24E1", "U+24C7", "", "",
    "U+24E2", "U+24C8", "", "", "U+24E3", "U+24C9", "", "", "U+24E4", "U+24CA", "", "",
    "U+24E5", "U+24CB", "", "", "U+24E6", "U+24CC", "", "", "U+24E7", "U+24CD", "", "",
    "U+24E8", "U+24CE", "", "", "U+24E9", "U+24CF", "", "", "U+2C30", "U+2C00", "", "",
    "U+2C31", "U+2C01", "", "", "U+2C32", "U+2C02", "", "", "U+2C33", "U+2C03", "", "",
    "U+2C34", "U+2C04", "", "", "U+2C35", "U+2C05", "", "", "U+2C36", "U+2C06", "", "",
    "U+2C37", "U+2C07", "", "", "U+2C38", "U+2C08", "", "", "U+2C39", "U+2C09", "", "",
    "U+2C3A", "U+2C0A", "", "", "U+2C3B", "U+2C0B", "", "", "U+2C3C", "U+2C0C", "", "",
    "U+2C3D", "U+2C0D", "", "", "U+2C3E", "U+2C0E", "", "", "U+2C3F", "U+2C0F", "", "",
    "U+2C40", "U+2C10", "", "", "U+2C41", "U+2C11", "", "", "U+2C42", "U+2C12", "", "",
    "U+2C43", "U+2C13", "", "", "U+2C44", "U+2C14", "", "", "U+2C45", "U+2C15", "", "",
    "U+2C46", "U+2C16", "", "", "U+2C47", "U+2C17", "", "", "U+2C48", "U+2C18", "", "",
    "U+2C49", "U+2C19", "", "", "U+2C4A", "U+2C1A", "", "", "U+2C4B", "U+2C1B", "", "",
    "U+2C4C", "U+2C1C", "", "", "U+2C4D", "U+2C1D", "", "", "U+2C4E", "U+2C1E", "", "",
    "U+2C4F", "U+2C1F", "", "", "U+2C50", "U+2C20", "", "", "U+2C51", "U+2C21", "", "",
    "U+2C52", "U+2C22", "", "", "U+2C53", "U+2C23", "", "", "U+2C54", "U+2C24", "", "",
    "U+2C55", "U+2C25", "", "", "U+2C56", "U+2C26", "", "", "U+2C57", "U+2C27", "", "",
    "U+2C58", "U+2C28", "", "", "U+2C59", "U+2C29", "", "", "U+2C5A", "U+2C2A", "", "",
    "U+2C5B", "U+2C2B", "", "", "U+2C5C", "U+2C2C", "", "", "U+2C5D", "U+2C2D", "", "",
    "U+2C5E", "U+2C2E", "", "", "U+2C5F", "U+2C2F", "", "", "U+2C61", "U+2C60", "", "",
    "U+2C65", "U+023A", "", "", "U+2C66", "U+023E", "", "", "U+2C68", "U+2C67", "", "",
    "U+2C6A", "U+2C69", "", "", "U+2C6C", "U+2C6B", "", "", "U+2C73", "U+2C72", "", "",
    "U+2C76", "U+2C75", "", "", "U+2C81", "U+2C80", "", "", "U+2C83", "U+2C82", "", "",
    "U+2C85", "U+2C84", "", "", "U+2C87", "U+2C86", "", "", "U+2C89", "U+2C88", "", "",
    "U+2C8B", "U+2C8A", "", "", "U+2C8D", "U+2C8C", "", "", "U+2C8F", "U+2C8E", "", "",
    "U+2C91", "U+2C90", "", "", "U+2C93", "U+2C92", "", "", "U+2C95", "U+2C94", "", "",
    "U+2C97", "U+2C96", "", "", "U+2C99", "U+2C98", "", "", "U+2C9B", "U+2C9A", "", "",
    "U+2C9D", "U+2C9C", "", "", "U+2C9F", "U+2C9E", "", "", "U+2CA1", "U+2CA0", "", "",
    "U+2CA3", "U+2CA2", "", "", "U+2CA5", "U+2CA4", "", "", "U+2CA7", "U+2CA6", "", "",
    "U+2CA9", "U+2CA8", "", "", "U+2CAB", "U+2CAA", "", "", "U+2CAD", "U+2CAC", "", "",
    "U+2CAF", "U+2CAE", "", "", "U+2CB1", "U+2CB0", "", "", "U+2CB3", "U+2CB2", "", "",
    "U+2CB5", "U+2CB4", "", "", "U+2CB7", "U+2CB6", "", "", "U+2CB9", "U+2CB8", "", "",
    "U+2CBB", "U+2CBA", "", "", "U+2CBD", "U+2CBC", "", "", "U+2CBF", "U+2CBE", "", "",
    "U+2CC1", "U+2CC0", "", "", "U+2CC3", "U+2CC2", "", "", "U+2CC5", "U+2CC4", "", "",
    "U+2CC7", "U+2CC6", "", "", "U+2CC9", "U+2CC8", "", "", "U+2CCB", "U+2CCA", "", "",
    "U+2CCD", "U+2CCC", "", "", "U+2CCF", "U+2CCE", "", "", "U+2CD1", "U+2CD0", "", "",
    "U+2CD3", "U+2CD2", "", "", "U+2CD5", "U+2CD4", "", "", "U+2CD7", "U+2CD6", "", "",
    "U+2CD9", "U+2CD8", "", "", "U+2CDB", "U+2CDA", "", "", "U+2CDD", "U+2CDC", "", "",
    "U+2CDF", "U+2CDE", "", "", "U+2CE1", "U+2CE0", "", "", "U+2CE3", "U+2CE2", "", "",
    "U+2CEC", "U+2CEB", "", "", "U+2CEE", "U+2CED", "", "", "U+2CF3", "U+2CF2", "", "",
    "U+2D00", "U+10A0", "", "", "U+2D01", "U+10A1", "", "", "U+2D02", "U+10A2", "", "",
    "U+2D03", "U+10A3", "", "", "U+2D04", "U+10A4", "", "", "U+2D05", "U+10A5", "", "",
    "U+2D06", "U+10A6", "", "", "U+2D07", "U+10A7", "", "", "U+2D08", "U+10A8", "", "",
    "U+2D09", "U+10A9", "", "", "U+2D0A", "U+10AA", "", "", "U+2D0B", "U+10AB", "", "",
    "U+2D0C", "U+10AC", "", "", "U+2D0D", "U+10AD", "", "", "U+2D0E", "U+10AE", "", "",
    "U+2D0F", "U+10AF", "", "", "U+2D10", "U+10B0", "", "", "U+2D11", "U+10B1", "", "",
    "U+2D12", "U+10B2", "", "", "U+2D13", "U+10B3", "", "", "U+2D14", "U+10B4", "", "",
    "U+2D15", "U+10B5", "", "", "U+2D16", "U+10B6", "", "", "U+2D17", "U+10B7", "", "",
    "U+2D18", "U+10B8", "", "", "U+2D19", "U+10B9", "", "", "U+2D1A", "U+10BA", "", "",
    "U+2D1B", "U+10BB", "", "", "U+2D1C", "U+10BC", "", "", "U+2D1D", "U+10BD", "", "",
    "U+2D1E", "U+10BE", "", "", "U+2D1F", "U+10BF", "", "", "U+2D20", "U+10C0", "", "",
    "U+2D21", "U+10C1", "", "", "U+2D22", "U+10C2", "", "", "U+2D23", "U+10C3", "", "",
    "U+2D24", "U+10C4", "", "", "U+2D25", "U+10C5", "", "", "U+2D27", "U+10C7", "", "",
    "U+2D2D", "U+10CD", "", "", "U+A641", "U+A640", "", "", "U+A643", "U+A642", "", "",
    "U+A645", "U+A644", "", "", "U+A647", "U+A646", "", "", "U+A649", "U+A648", "", "",
    "U+A64B", "U+A64A", "", "", "U+A64D", "U+A64C", "", "", "U+A64F", "U+A64E", "", "",
    "U+A651", "U+A650", "", "", "U+A653", "U+A652", "", "", "U+A655", "U+A654", "", "",
    "U+A657", "U+A656", "", "", "U+A659", "U+A658", "", "", "U+A65B", "U+A65A", "", "",
    "U+A65D", "U+A65C", "", "", "U+A65F", "U+A65E", "", "", "U+A661", "U+A660", "", "",
    "U+A663", "U+A662", "", "", "U+A665", "U+A664", "", "", "U+A667", "U+A666", "", "",
    "U+A669", "U+A668", "", "", "U+A66B", "U+A66A", "", "", "U+A66D", "U+A66C", "", "",
    "U+A681", "U+A680", "", "", "U+A683", "U+A682", "", "", "U+A685", "U+A684", "", "",
    "U+A687", "U+A686", "", "", "U+A689", "U+A688", "", "", "U+A68B", "U+A68A", "", "",
    "U+A68D", "U+A68C", "", "", "U+A68F", "U+A68E", "", "", "U+A691", "U+A690", "", "",
    "U+A693", "U+A692", "", "", "U+A695", "U+A694", "", "", "U+A697", "U+A696", "", "",
    "U+A699", "U+A698", "", "", "U+A69B", "U+A69A", "", "", "U+A723", "U+A722", "", "",
    "U+A725", "U+A724", "", "", "U+A727", "U+A726", "", "", "U+A729", "U+A728", "", "",
    "U+A72B", "U+A72A", "", "", "U+A72D", "U+A72C", "", "", "U+A72F", "U+A72E", "", "",
    "U+A733", "U+A732", "", "", "U+A735", "U+A734", "", "", "U+A737", "U+A736", "", "",
    "U+A739", "U+A738", "", "", "U+A73B", "U+A73A", "", "", "U+A73D", "U+A73C", "", "",
    "U+A73F", "U+A73E", "", "", "U+A741", "U+A740", "", "", "U+A743", "U+A742", "", "",
    "U+A745", "U+A744", "", "", "U+A747", "U+A746", "", "", "U+A749", "U+A748", "", "",
    "U+A74B", "U+A74A", "", "", "U+A74D", "U+A74C", "", "", "U+A74F", "U+A74E", "", "",
    "U+A751", "U+A750", "", "", "U+A753", "U+A752", "", "", "U+A755", "U+A754", "", "",
    "U+A757", "U+A756", "", "", "U+A759", "U+A758", "", "", "U+A75B", "U+A75A", "", "",
    "U+A75D", "U+A75C", "", "", "U+A75F", "U+A75E", "", "", "U+A761", "U+A760", "", "",
    "U+A763", "U+A762", "", "", "U+A765", "U+A764", "", "", "U+A767", "U+A766", "", "",
    "U+A769", "U+A768", "", "", "U+A76B", "U+A76A", "", "", "U+A76D", "U+A76C", "", "",
    "U+A76F", "U+A76E", "", "", "U+A77A", "U+A779", "", "", "U+A77C", "U+A77B", "", "",
    "U+A77F", "U+A77E", "", "", "U+A781", "U+A780", "", "", "U+A783", "U+A782", "", "",
    "U+A785", "U+A784", "", "", "U+A787", "U+A786", "", "", "U+A78C", "U+A78B", "", "",
    "U+A791", "U+A790", "", "", "U+A793", "U+A792", "", "", "U+A794", "U+A7C4", "", "",
    "U+A797", "U+A796", "", "", "U+A799", "U+A798", "", "", "U+A79B", "U+A79A", "", "",
    "U+A79D", "U+A79C", "", "", "U+A79F", "U+A79E", "", "", "U+A7A1", "U+A7A0", "", "",
    "U+A7A3", "U+A7A2", "", "", "U+A7A5", "U+A7A4", "", "", "U+A7A7", "U+A7A6", "", "",
    "U+A7A9", "U+A7A8", "", "", "U+A7B5", "U+A7B4", "", "", "U+A7B7", "U+A7B6", "", "",
    "U+A7B9", "U+A7B8", "", "", "U+A7BB", "U+A7BA", "", "", "U+A7BD", "U+A7BC", "", "",
    "U+A7BF", "U+A7BE", "", "", "U+A7C1", "U+A7C0", "", "", "U+A7C3", "U+A7C2", "", "",
    "U+A7C8", "U+A7C7", "", "", "U+A7CA", "U+A7C9", "", "", "U+A7D1", "U+A7D0", "", "",
    "U+A7D7", "U+A7D6", "", "", "U+A7D9", "U+A7D8", "", "", "U+A7F6", "U+A7F5", "", "",
    "U+AB53", "U+A7B3", "", "", "U+AB70", "U+13A0", "", "", "U+AB71", "U+13A1", "", "",
    "U+AB72", "U+13A2", "", "", "U+AB73", "U+13A3", "", "", "U+AB74", "U+13A4", "", "",
    "U+AB75", "U+13A5", "", "", "U+AB76", "U+13A6", "", "", "U+AB77", "U+13A7", "", "",
    "U+AB78", "U+13A8", "", "", "U+AB79", "U+13A9", "", "", "U+AB7A", "U+13AA", "", "",
    "U+AB7B", "U+13AB", "", "", "U+AB7C", "U+13AC", "", "", "U+AB7D", "U+13AD", "", "",
    "U+AB7E", "U+13AE", "", "", "U+AB7F", "U+13AF", "", "", "U+AB80", "U+13B0", "", "",
    "U+AB81", "U+13B1", "", "", "U+AB82", "U+13B2", "", "", "U+AB83", "U+13B3", "", "",
    "U+AB84", "U+13B4", "", "", "U+AB85", "U+13B5", "", "", "U+AB86", "U+13B6", "", "",
    "U+AB87", "U+13B7", "", "", "U+AB88", "U+13B8", "", "", "U+AB89", "U+13B9", "", "",
    "U+AB8A", "U+13BA", "", "", "U+AB8B", "U+13BB", "", "", "U+AB8C", "U+13BC", "", "",
    "U+AB8D", "U+13BD", "", "", "U+AB8E", "U+13BE", "", "", "U+AB8F", "U+13BF", "", "",
    "U+AB90", "U+13C0", "", "", "U+AB91", "U+13C1", "", "", "U+AB92", "U+13C2", "", "",
    "U+AB93", "U+13C3", "", "", "U+AB94", "U+13C4", "", "", "U+AB95", "U+13C5", "", "",
    "U+AB96", "U+13C6", "", "", "U+AB97", "U+13C7", "", "", "U+AB98", "U+13C8", "", "",
    "U+AB99", "U+13C9", "", "", "U+AB9A", "U+13CA", "", "", "U+AB9B", "U+13CB", "", "",
    "U+AB9C", "U+13CC", "", "", "U+AB9D", "U+13CD", "", "", "U+AB9E", "U+13CE", "", "",
    "U+AB9F", "U+13CF", "", "", "U+ABA0", "U+13D0", "", "", "U+ABA1", "U+13D1", "", "",
    "U+ABA2", "U+13D2", "", "", "U+ABA3", "U+13D3", "", "", "U+ABA4", "U+13D4", "", "",
    "U+ABA5", "U+13D5", "", "", "U+ABA6", "U+13D6", "", "", "U+ABA7", "U+13D7", "", "",
    "U+ABA8", "U+13D8", "", "", "U+ABA9", "U+13D9", "", "", "U+ABAA", "U+13DA", "", "",
    "U+ABAB", "U+13DB", "", "", "U+ABAC", "U+13DC", "", "", "U+ABAD", "U+13DD", "", "",
    "U+ABAE", "U+13DE", "", "", "U+ABAF", "U+13DF", "", "", "U+ABB0", "U+13E0", "", "",
    "U+ABB1", "U+13E1", "", "", "U+ABB2", "U+13E2", "", "", "U+ABB3", "U+13E3", "", "",
    "U+ABB4", "U+13E4", "", "", "U+ABB5", "U+13E5", "", "", "U+ABB6", "U+13E6", "", "",
    "U+ABB7", "U+13E7", "", "", "U+ABB8", "U+13E8", "", "", "U+ABB9", "U+13E9", "", "",
    "U+ABBA", "U+13EA", "", "", "U+ABBB", "U+13EB", "", "", "U+ABBC", "U+13EC", "", "",
    "U+ABBD", "U+13ED", "", "", "U+ABBE", "U+13EE", "", "", "U+ABBF", "U+13EF", "", "",
    "U+FB00", "F", "F", "", "U+FB01", "F", "I", "", "U+FB02", "F", "L", "",
    "U+FB03", "F", "F", "I", "U+FB04", "F", "F", "L", "U+FB05", "S", "T", "",
    "U+FB06", "S", "T", "", "U+FB13", "U+0544", "U+0546", "", "U+FB14", "U+0544", "U+0535", "",
    "U+FB15", "U+0544", "U+053B", "", "U+FB16", "U+054E", "U+0546", "",
    "U+FB17", "U+0544", "U+053D", "", "U+FF41", "U+FF21", "", "", "U+FF42", "U+FF22", "", "",
    "U+FF43", "U+FF23", "", "", "U+FF44", "U+FF24", "", "", "U+FF45", "U+FF25", "", "",
    "U+FF46", "U+FF26", "", "", "U+FF47", "U+FF27", "", "", "U+FF48", "U+FF28", "", "",
    "U+FF49", "U+FF29", "", "", "U+FF4A", "U+FF2A", "", "", "U+FF4B", "U+FF2B", "", "",
    "U+FF4C", "U+FF2C", "", "", "U+FF4D", "U+FF2D", "", "", "U+FF4E", "U+FF2E", "", "",
    "U+FF4F", "U+FF2F", "", "", "U+FF50", "U+FF30", "", "", "U+FF51", "U+FF31", "", "",
    "U+FF52", "U+FF32", "", "", "U+FF53", "U+FF33", "", "", "U+FF54", "U+FF34", "", "",
    "U+FF55", "U+FF35", "", "", "U+FF56", "U+FF36", "", "", "U+FF57", "U+FF37", "", "",
    "U+FF58", "U+FF38", "", "", "U+FF59", "U+FF39", "", "", "U+FF5A", "U+FF3A", "", "",
    "U+10428", "U+10400", "", "", "U+10429", "U+10401", "", "", "U+1042A", "U+10402", "", "",
    "U+1042B", "U+10403", "", "", "U+1042C", "U+10404", "", "", "U+1042D", "U+10405", "", "",
    "U+1042E", "U+10406", "", "", "U+1042F", "U+10407", "", "", "U+10430", "U+10408", "", "",
    "U+10431", "U+10409", "", "", "U+10432", "U+1040A", "", "", "U+10433", "U+1040B", "", "",
    "U+10434", "U+1040C", "", "", "U+10435", "U+1040D", "", "", "U+10436", "U+1040E", "", "",
    "U+10437", "U+1040F", "", "", "U+10438", "U+10410", "", "", "U+10439", "U+10411", "", "",
    "U+1043A", "U+10412", "", "", "U+1043B", "U+10413", "", "", "U+1043C", "U+10414", "", "",
    "U+1043D", "U+10415", "", "", "U+1043E", "U+10416", "", "", "U+1043F", "U+10417", "", "",
    "U+10440", "U+10418", "", "", "U+10441", "U+10419", "", "", "U+10442", "U+1041A", "", "",
    "U+10443", "U+1041B", "", "", "U+10444", "U+1041C", "", "", "U+10445", "U+1041D", "", "",
    "U+10446", "U+1041E", "", "", "U+10447", "U+1041F", "", "", "U+10448", "U+10420", "", "",
    "U+10449", "U+10421", "", "", "U+1044A", "U+10422", "", "", "U+1044B", "U+10423", "", "",
    "U+1044C", "U+10424", "", "", "U+1044D", "U+10425", "", "", "U+1044E", "U+10426", "", "",
    "U+1044F", "U+10427", "", "", "U+104D8", "U+104B0", "", "", "U+104D9", "U+104B1", "", "",
    "U+104DA", "U+104B2", "", "", "U+104DB", "U+104B3", "", "", "U+104DC", "U+104B4", "", "",
    "U+104DD", "U+104B5", "", "", "U+104DE", "U+104B6", "", "", "U+104DF", "U+104B7", "", "",
    "U+104E0", "U+104B8", "", "", "U+104E1", "U+104B9", "", "", "U+104E2", "U+104BA", "", "",
    "U+104E3", "U+104BB", "", "", "U+104E4", "U+104BC", "", "", "U+104E5", "U+104BD", "", "",
    "U+104E6", "U+104BE", "", "", "U+104E7", "U+104BF", "", "", "U+104E8", "U+104C0", "", "",
    "U+104E9", "U+104C1", "", "", "U+104EA", "U+104C2", "", "", "U+104EB", "U+104C3", "", "",
    "U+104EC", "U+104C4", "", "", "U+104ED", "U+104C5", "", "", "U+104EE", "U+104C6", "", "",
    "U+104EF", "U+104C7", "", "", "U+104F0", "U+104C8", "", "", "U+104F1", "U+104C9", "", "",
    "U+104F2", "U+104CA", "", "", "U+104F3", "U+104CB", "", "", "U+104F4", "U+104CC", "", "",
    "U+104F5", "U+104CD", "", "", "U+104F6", "U+104CE", "", "", "U+104F7", "U+104CF", "", "",
    "U+104F8", "U+104D0", "", "", "U+104F9", "U+104D1", "", "", "U+104FA", "U+104D2", "", "",
    "U+104FB", "U+104D3", "", "", "U+10597", "U+10570", "", "", "U+10598", "U+10571", "", "",
    "U+10599", "U+10572", "", "", "U+1059A", "U+10573", "", "", "U+1059B", "U+10574", "", "",
    "U+1059C", "U+10575", "", "", "U+1059D", "U+10576", "", "", "U+1059E", "U+10577", "", "",
    "U+1059F", "U+10578", "", "", "U+105A0", "U+10579", "", "", "U+105A1", "U+1057A", "", "",
    "U+105A3", "U+1057C", "", "", "U+105A4", "U+1057D", "", "", "U+105A5", "U+1057E", "", "",
    "U+105A6", "U+1057F", "", "", "U+105A7", "U+10580", "", "", "U+105A8", "U+10581", "", "",
    "U+105A9", "U+10582", "", "", "U+105AA", "U+10583", "", "", "U+105AB", "U+10584", "", "",
    "U+105AC", "U+10585", "", "", "U+105AD", "U+10586", "", "", "U+105AE", "U+10587", "", "",
    "U+105AF", "U+10588", "", "", "U+105B0", "U+10589", "", "", "U+105B1", "U+1058A", "", "",
    "U+105B3", "U+1058C", "", "", "U+105B4", "U+1058D", "", "", "U+105B5", "U+1058E", "", "",
    "U+105B6", "U+1058F", "", "", "U+105B7", "U+10590", "", "", "U+105B8", "U+10591", "", "",
    "U+105B9", "U+10592", "", "", "U+105BB", "U+10594", "", "", "U+105BC", "U+10595", "", "",
    "U+10CC0", "U+10C80", "", "", "U+10CC1", "U+10C81", "", "", "U+10CC2", "U+10C82", "", "",
    "U+10CC3", "U+10C83", "", "", "U+10CC4", "U+10C84", "", "", "U+10CC5", "U+10C85", "", "",
    "U+10CC6", "U+10C86", "", "", "U+10CC7", "U+10C87", "", "", "U+10CC8", "U+10C88", "", "",
    "U+10CC9", "U+10C89", "", "", "U+10CCA", "U+10C8A", "", "", "U+10CCB", "U+10C8B", "", "",
    "U+10CCC", "U+10C8C", "", "", "U+10CCD", "U+10C8D", "", "", "U+10CCE", "U+10C8E", "", "",
    "U+10CCF", "U+10C8F", "", "", "U+10CD0", "U+10C90", "", "", "U+10CD1", "U+10C91", "", "",
    "U+10CD2", "U+10C92", "", "", "U+10CD3", "U+10C93", "", "", "U+10CD4", "U+10C94", "", "",
    "U+10CD5", "U+10C95", "", "", "U+10CD6", "U+10C96", "", "", "U+10CD7", "U+10C97", "", "",
    "U+10CD8", "U+10C98", "", "", "U+10CD9", "U+10C99", "", "", "U+10CDA", "U+10C9A", "", "",
    "U+10CDB", "U+10C9B", "", "", "U+10CDC", "U+10C9C", "", "", "U+10CDD", "U+10C9D", "", "",
    "U+10CDE", "U+10C9E", "", "", "U+10CDF", "U+10C9F", "", "", "U+10CE0", "U+10CA0", "", "",
    "U+10CE1", "U+10CA1", "", "", "U+10CE2", "U+10CA2", "", "", "U+10CE3", "U+10CA3", "", "",
    "U+10CE4", "U+10CA4", "", "", "U+10CE5", "U+10CA5", "", "", "U+10CE6", "U+10CA6", "", "",
    "U+10CE7", "U+10CA7", "", "", "U+10CE8", "U+10CA8", "", "", "U+10CE9", "U+10CA9", "", "",
    "U+10CEA", "U+10CAA", "", "", "U+10CEB", "U+10CAB", "", "", "U+10CEC", "U+10CAC", "", "",
    "U+10CED", "U+10CAD", "", "", "U+10CEE", "U+10CAE", "", "", "U+10CEF", "U+10CAF", "", "",
    "U+10CF0", "U+10CB0", "", "", "U+10CF1", "U+10CB1", "", "", "U+10CF2", "U+10CB2", "", "",
    "U+118C0", "U+118A0", "", "", "U+118C1", "U+118A1", "", "", "U+118C2", "U+118A2", "", "",
    "U+118C3", "U+118A3", "", "", "U+118C4", "U+118A4", "", "", "U+118C5", "U+118A5", "", "",
    "U+118C6", "U+118A6", "", "", "U+118C7", "U+118A7", "", "", "U+118C8", "U+118A8", "", "",
    "U+118C9", "U+118A9", "", "", "U+118CA", "U+118AA", "", "", "U+118CB", "U+118AB", "", "",
    "U+118CC", "U+118AC", "", "", "U+118CD", "U+118AD", "", "", "U+118CE", "U+118AE", "", "",
    "U+118CF", "U+118AF", "", "", "U+118D0", "U+118B0", "", "", "U+118D1", "U+118B1", "", "",
    "U+118D2", "U+118B2", "", "", "U+118D3", "U+118B3", "", "", "U+118D4", "U+118B4", "", "",
    "U+118D5", "U+118B5", "", "", "U+118D6", "U+118B6", "", "", "U+118D7", "U+118B7", "", "",
    "U+118D8", "U+118B8", "", "", "U+118D9", "U+118B9", "", "", "U+118DA", "U+118BA", "", "",
    "U+118DB", "U+118BB", "", "", "U+118DC", "U+118BC", "", "", "U+118DD", "U+118BD", "", "",
    "U+118DE", "U+118BE", "", "", "U+118DF", "U+118BF", "", "", "U+16E60", "U+16E40", "", "",
    "U+16E61", "U+16E41", "", "", "U+16E62", "U+16E42", "", "", "U+16E63", "U+16E43", "", "",
    "U+16E64", "U+16E44", "", "", "U+16E65", "U+16E45", "", "", "U+16E66", "U+16E46", "", "",
    "U+16E67", "U+16E47", "", "", "U+16E68", "U+16E48", "", "", "U+16E69", "U+16E49", "", "",
    "U+16E6A", "U+16E4A", "", "", "U+16E6B", "U+16E4B", "", "", "U+16E6C", "U+16E4C", "", "",
    "U+16E6D", "U+16E4D", "", "", "U+16E6E", "U+16E4E", "", "", "U+16E6F", "U+16E4F", "", "",
    "U+16E70", "U+16E50", "", "", "U+16E71", "U+16E51", "", "", "U+16E72", "U+16E52", "", "",
    "U+16E73", "U+16E53", "", "", "U+16E74", "U+16E54", "", "", "U+16E75", "U+16E55", "", "",
    "U+16E76", "U+16E56", "", "", "U+16E77", "U+16E57", "", "", "U+16E78", "U+16E58", "", "",
    "U+16E79", "U+16E59", "", "", "U+16E7A", "U+16E5A", "", "", "U+16E7B", "U+16E5B", "", "",
    "U+16E7C", "U+16E5C", "", "", "U+16E7D", "U+16E5D", "", "", "U+16E7E", "U+16E5E", "", "",
    "U+16E7F", "U+16E5F", "", "", "U+1E922", "U+1E900", "", "", "U+1E923", "U+1E901", "", "",
    "U+1E924", "U+1E902", "", "", "U+1E925", "U+1E903", "", "", "U+1E926", "U+1E904", "", "",
    "U+1E927", "U+1E905", "", "", "U+1E928", "U+1E906", "", "", "U+1E929", "U+1E907", "", "",
    "U+1E92A", "U+1E908", "", "", "U+1E92B", "U+1E909", "", "", "U+1E92C", "U+1E90A", "", "",
    "U+1E92D", "U+1E90B", "", "", "U+1E92E", "U+1E90C", "", "", "U+1E92F", "U+1E90D", "", "",
    "U+1E930", "U+1E90E", "", "", "U+1E931", "U+1E90F", "", "", "U+1E932", "U+1E910", "", "",
    "U+1E933", "U+1E911", "", "", "U+1E934", "U+1E912", "", "", "U+1E935", "U+1E913", "", "",
    "U+1E936", "U+1E914", "", "", "U+1E937", "U+1E915", "", "", "U+1E938", "U+1E916", "", "",
    "U+1E939", "U+1E917", "", "", "U+1E93A", "U+1E918", "", "", "U+1E93B", "U+1E919", "", "",
    "U+1E93C", "U+1E91A", "", "", "U+1E93D", "U+1E91B", "", "", "U+1E93E", "U+1E91C", "", "",
    "U+1E93F", "U+1E91D", "", "", "U+1E940", "U+1E91E", "", "", "U+1E941", "U+1E91F", "", "",
    "U+1E942", "U+1E920", "", "", "U+1E943", "U+1E921", "", ""
  >>

\* the characters str.lower() skips when it looks for the letter next to a U+03A3
CaseIgnorable ==
  {
    "'", ".", ":", "^", "U+0060", "U+00A8", "U+00AD", "U+00AF", "U+00B4", "U+00B7", "U+00B8",
    "U+02B0", "U+02B1", "U+02B2", "U+02B3", "U+02B4", "U+02B5", "U+02B6", "U+02B7", "U+02B8",
    "U+02B9", "U+02BA", "U+02BB", "U+02BC", "U+02BD", "U+02BE", "U+02BF", "U+02C0", "U+02C1",
    "U+02C2", "U+02C3", "U+02C4", "U+02C5", "U+02C6", "U+02C7", "U+02C8", "U+02C9", "U+02CA",
    "U+02CB", "U+02CC", "U+02CD", "U+02CE", "U+02CF", "U+02D0", "U+02D1", "U+02D2", "U+02D3",
    "U+02D4", "U+02D5", "U+02D6", "U+02D7", "U+02D8", "U+02D9", "U+02DA", "U+02DB", "U+02DC",
    "U+02DD", "U+02DE", "U+02DF", "U+02E0", "U+02E1", "U+02E2", "U+02E3", "U+02E4", "U+02E5",
    "U+02E6", "U+02E7", "U+02E8", "U+02E9", "U+02EA", "U+02EB", "U+02EC", "U+02ED", "U+02EE",
    "U+02EF", "U+02F0", "U+02F1", "U+02F2", "U+02F3", "U+02F4", "U+02F5", "U+02F6", "U+02F7",
    "U+02F8", "U+02F9", "U+02FA", "U+02FB", "U+02FC", "U+02FD", "U+02FE", "U+02FF", "U+0300",
    "U+0301", "U+0302", "U+0303", "U+0304", "U+0305", "U+0306", "U+0307", "U+0308", "U+0309",
    "U+030A", "U+030B", "U+030C", "U+030D", "U+030E", "U+030F", "U+0310", "U+0311", "U+0312",
    "U+0313", "U+0314", "U+0315", "U+0316", "U+0317", "U+0318", "U+0319", "U+031A", "U+031B",
    "U+031C", "U+031D", "U+031E", "U+031F", "U+0320", "U+0321", "U+0322", "U+0323", "U+0324",
    "U+0325", "U+0326", "U+0327", "U+0328", "U+0329", "U+032A", "U+032B", "U+032C", "U+032D",
    "U+032E", "U+032F", "U+0330", "U+0331", "U+0332", "U+0333", "U+0334", "U+0335", "U+0336",
    "U+0337", "U+0338", "U+0339", "U+033A", "U+033B", "U+033C", "U+033D", "U+033E", "U+033F",
    "U+0340", "U+0341", "U+0342", "U+0343", "U+0344", "U+0345", "U+0346", "U+0347", "U+0348",
    "U+0349", "U+034A", "U+034B", "U+034C", "U+034D", "U+034E", "U+034F", "U+0350", "U+0351",
    "U+0352", "U+0353", "U+0354", "U+0355", "U+0356", "U+0357", "U+0358", "U+0359", "U+035A",
    "U+035B", "U+035C", "U+035D", "U+035E", "U+035F", "U+0360", "U+0361", "U+0362", "U+0363",
    "U+0364", "U+0365", "U+0366", "U+0367", "U+0368", "U+0369", "U+036A", "U+036B", "U+036C",
    "U+036D", "U+036E", "U+036F", "U+0374", "U+0375", "U+037A", "U+0384", "U+0385", "U+0387",
    "U+0483", "U+0484", "U+0485", "U+0486", "U+0487", "U+0488", "U+0489", "U+0559", "U+055F",
    "U+0591", "U+0592", "U+0593", "U+0594", "U+0595", "U+0596", "U+0597", "U+0598", "U+0599",
    "U+059A", "U+059B", "U+059C", "U+059D", "U+059E", "U+059F", "U+05A0", "U+05A1", "U+05A2",
    "U+05A3", "U+05A4", "U+05A5", "U+05A6", "U+05A7", "U+05A8", "U+05A9", "U+05AA", "U+05AB",
    "U+05AC", "U+05AD", "U+05AE", "U+05AF", "U+05B0", "U+05B1", "U+05B2", "U+05B3", "U+05B4",
    "U+05B5", "U+05B6", "U+05B7", "U+05B8", "U+05B9", "U+05BA", "U+05BB", "U+05BC", "U+05BD",
    "U+05BF", "U+05C1", "U+05C2", "U+05C4", "U+05C5", "U+05C7", "U+05F4", "U+0600", "U+0601",
    "U+0602", "U+0603", "U+0604", "U+0605", "U+0610", "U+0611", "U+0612", "U+0613", "U+0614",
    "U+0615", "U+0616", "U+0617", "U+0618", "U+0619", "U+061A", "U+061C", "U+0640", "U+064B",
    "U+064C", "U+064D", "U+064E", "U+064F", "U+0650", "U+0651", "U+0652", "U+0653", "U+0654",
    "U+0655", "U+0656", "U+0657", "U+0658", "U+0659", "U+065A", "U+065B", "U+065C", "U+065D",
    "U+065E", "U+065F", "U+0670", "U+06D6", "U+06D7", "U+06D8", "U+06D9", "U+06DA", "U+06DB",
    "U+06DC", "U+06DD", "U+06DF", "U+06E0", "U+06E1", "U+06E2", "U+06E3", "U+06E4", "U+06E5",
    "U+06E6", "U+06E7", "U+06E8", "U+06EA", "U+06EB", "U+06EC", "U+06ED", "U+070F", "U+0711",
    "U+0730", "U+0731", "U+0732", "U+0733", "U+0734", "U+0735", "U+0736", "U+0737", "U+0738",
    "U+0739", "U+073A", "U+073B", "U+073C", "U+073D", "U+073E", "U+073F", "U+0740", "U+0741",
    "U+0742", "U+0743", "U+0744", "U+0745", "U+0746", "U+0747", "U+0748", "U+0749", "U+074A",
    "U+07A6", "U+07A7", "U+07A8", "U+07A9", "U+07AA", "U+07AB", "U+07AC", "U+07AD", "U+07AE",
    "U+07AF", "U+07B0", "U+07EB", "U+07EC", "U+07ED", "U+07EE", "U+07EF", "U+07F0", "U+07F1",
    "U+07F2", "U+07F3", "U+07F4", "U+07F5", "U+07FA", "U+07FD", "U+0816", "U+0817", "U+0818",
    "U+0819", "U+081A", "U+081B", "U+081C", "U+081D", "U+081E", "U+081F", "U+0820", "U+0821",
    "U+0822", "U+0823", "U+0824", "U+0825", "U+0826", "U+0827", "U+0828", "U+0829", "U+082A",
    "U+082B", "U+082C", "U+082D", "U+0859", "U+085A", "U+085B", "U+0888", "U+0890", "U+0891",
    "U+0898", "U+0899", "U+089A", "U+089B", "U+089C", "U+089D", "U+089E", "U+089F", "U+08C9",
    "U+08CA", "U+08CB", "U+08CC", "U+08CD", "U+08CE", "U+08CF", "U+08D0", "U+08D1", "U+08D2",
    "U+08D3", "U+08D4", "U+08D5", "U+08D6", "U+08D7", "U+08D8", "U+08D9", "U+08DA", "U+08DB",
    "U+08DC", "U+08DD", "U+08DE", "U+08DF", "U+08E0", "U+08E1", "U+08E2", "U+08E3", "U+08E4",
    "U+08E5", "U+08E6", "U+08E7", "U+08E8", "U+08E9", "U+08EA", "U+08EB", "U+08EC", "U+08ED",
    "U+08EE", "U+08EF", "U+08F0", "U+08F1", "U+08F2", "U+08F3", "U+08F4", "U+08F5", "U+08F6",
    "U+08F7", "U+08F8", "U+08F9", "U+08FA", "U+08FB", "U+08FC", "U+08FD", "U+08FE", "U+08FF",
    "U+0900", "U+0901", "U+0902", "U+093A", "U+093C", "U+0941", "U+0942", "U+0943", "U+0944",
    "U+0945", "U+0946", "U+0947", "U+0948", "U+094D", "U+0951", "U+0952", "U+0953", "U+0954",
    "U+0955", "U+0956", "U+0957", "U+0962", "U+0963", "U+0971", "U+0981", "U+09BC", "U+09C1",
    "U+09C2", "U+09C3", "U+09C4", "U+09CD", "U+09E2", "U+09E3", "U+09FE", "U+0A01", "U+0A02",
    "U+0A3C", "U+0A41", "U+0A42", "U+0A47", "U+0A48", "U+0A4B", "U+0A4C", "U+0A4D", "U+0A51",
    "U+0A70", "U+0A71", "U+0A75", "U+0A81", "U+0A82", "U+0ABC", "U+0AC1", "U+0AC2", "U+0AC3",
    "U+0AC4", "U+0AC5", "U+0AC7", "U+0AC8", "U+0ACD", "U+0AE2", "U+0AE3", "U+0AFA", "U+0AFB",
    "U+0AFC", "U+0AFD", "U+0AFE", "U+0AFF", "U+0B01", "U+0B3C", "U+0B3F", "U+0B41", "U+0B42",
    "U+0B43", "U+0B44", "U+0B4D", "U+0B55", "U+0B56", "U+0B62", "U+0B63", "U+0B82", "U+0BC0",
    "U+0BCD", "U+0C00", "U+0C04", "U+0C3C", "U+0C3E", "U+0C3F", "U+0C40", "U+0C46", "U+0C47",
    "U+0C48", "U+0C4A", "U+0C4B", "U+0C4C", "U+0C4D", "U+0C55", "U+0C56", "U+0C62", "U+0C63",
    "U+0C81", "U+0CBC", "U+0CBF", "U+0CC6", "U+0CCC", "U+0CCD", "U+0CE2", "U+0CE3", "U+0D00",
    "U+0D01", "U+0D3B", "U+0D3C", "U+0D41", "U+0D42", "U+0D43", "U+0D44", "U+0D4D", "U+0D62",
    "U+0D63", "U+0D81", "U+0DCA", "U+0DD2", "U+0DD3", "U+0DD4", "U+0DD6", "U+0E31", "U+0E34",
    "U+0E35", "U+0E36", "U+0E37", "U+0E38", "U+0E39", "U+0E3A", "U+0E46", "U+0E47", "U+0E48",
    "U+0E49", "U+0E4A", "U+0E4B", "U+0E4C", "U+0E4D", "U+0E4E", "U+0EB1", "U+0EB4", "U+0EB5",
    "U+0EB6", "U+0EB7", "U+0EB8", "U+0EB9", "U+0EBA", "U+0EBB", "U+0EBC", "U+0EC6", "U+0EC8",
    "U+0EC9", "U+0ECA", "U+0ECB", "U+0ECC", "U+0ECD", "U+0F18", "U+0F19", "U+0F35", "U+0F37",
    "U+0F39", "U+0F71", "U+0F72", "U+0F73", "U+0F74", "U+0F75", "U+0F76", "U+0F77", "U+0F78",
    "U+0F79", "U+0F7A", "U+0F7B", "U+0F7C", "U+0F7D", "U+0F7E", "U+0F80", "U+0F81", "U+0F82",
    "U+0F83", "U+0F84", "U+0F86", "U+0F87", "U+0F8D", "U+0F8E", "U+0F8F", "U+0F90", "U+0F91",
    "U+0F92", "U+0F93", "U+0F94", "U+0F95", "U+0F96", "U+0F97", "U+0F99", "U+0F9A", "U+0F9B",
    "U+0F9C", "U+0F9D", "U+0F9E", "U+0F9F", "U+0FA0", "U+0FA1", "U+0FA2", "U+0FA3", "U+0FA4",
    "U+0FA5", "U+0FA6", "U+0FA7", "U+0FA8", "U+0FA9", "U+0FAA", "U+0FAB", "U+0FAC", "U+0FAD",
    "U+0FAE", "U+0FAF", "U+0FB0", "U+0FB1", "U+0FB2", "U+0FB3", "U+0FB4", "U+0FB5", "U+0FB6",
    "U+0FB7", "U+0FB8", "U+0FB9", "U+0FBA", "U+0FBB", "U+0FBC", "U+0FC6", "U+102D", "U+102E",
    "U+102F", "U+1030", "U+1032", "U+1033", "U+1034", "U+1035", "U+1036", "U+1037", "U+1039",
    "U+103A", "U+103D", "U+103E", "U+1058", "U+1059", "U+105E", "U+105F", "U+1060", "U+1071",
    "U+1072", "U+1073", "U+1074", "U+1082", "U+1085", "U+1086", "U+108D", "U+109D", "U+10FC",
    "U+135D", "U+135E", "U+135F", "U+1712", "U+1713", "U+1714", "U+1732", "U+1733", "U+1752",
    "U+1753", "U+1772", "U+1773", "U+17B4", "U+17B5", "U+17B7", "U+17B8", "U+17B9", "U+17BA",
    "U+17BB", "U+17BC", "U+17BD", "U+17C6", "U+17C9", "U+17CA", "U+17CB", "U+17CC", "U+17CD",
    "U+17CE", "U+17CF", "U+17D0", "U+17D1", "U+17D2", "U+17D3", "U+17D7", "U+17DD", "U+180B",
    "U+180C", "U+180D", "U+180E", "U+180F", "U+1843", "U+1885", "U+1886", "U+18A9", "U+1920",
    "U+1921", "U+1922", "U+1927", "U+1928", "U+1932", "U+1939", "U+193A", "U+193B", "U+1A17",
    "U+1A18", "U+1A1B", "U+1A56", "U+1A58", "U+1A59", "U+1A5A", "U+1A5B", "U+1A5C", "U+1A5D",
    "U+1A5E", "U+1A60", "U+1A62", "U+1A65", "U+1A66", "U+1A67", "U+1A68", "U+1A69", "U+1A6A",
    "U+1A6B", "U+1A6C", "U+1A73", "U+1A74", "U+1A75", "U+1A76", "U+1A77", "U+1A78", "U+1A79",
    "U+1A7A", "U+1A7B", "U+1A7C", "U+1A7F", "U+1AA7", "U+1AB0", "U+1AB1", "U+1AB2", "U+1AB3",
    "U+1AB4", "U+1AB5", "U+1AB6", "U+1AB7", "U+1AB8", "U+1AB9", "U+1ABA", "U+1ABB", "U+1ABC",
    "U+1ABD", "U+1ABE", "U+1ABF", "U+1AC0", "U+1AC1", "U+1AC2", "U+1AC3", "U+1AC4", "U+1AC5",
    "U+1AC6", "U+1AC7", "U+1AC8", "U+1AC9", "U+1ACA", "U+1ACB", "U+1ACC", "U+1ACD", "U+1ACE",
    "U+1B00", "U+1B01", "U+1B02", "U+1B03", "U+1B34", "U+1B36", "U+1B37", "U+1B38", "U+1B39",
    "U+1B3A", "U+1B3C", "U+1B42", "U+1B6B", "U+1B6C", "U+1B6D", "U+1B6E", "U+1B6F", "U+1B70",
    "U+1B71", "U+1B72", "U+1B73", "U+1B80", "U+1B81", "U+1BA2", "U+1BA3", "U+1BA4", "U+1BA5",
    "U+1BA8", "U+1BA9", "U+1BAB", "U+1BAC", "U+1BAD", "U+1BE6", "U+1BE8", "U+1BE9", "U+1BED",
    "U+1BEF", "U+1BF0", "U+1BF1", "U+1C2C", "U+1C2D", "U+1C2E", "U+1C2F", "U+1C30", "U+1C31",
    "U+1C32", "U+1C33", "U+1C36", "U+1C37", "U+1C78", "U+1C79", "U+1C7A", "U+1C7B", "U+1C7C",
    "U+1C7D", "U+1CD0", "U+1CD1", "U+1CD2", "U+1CD4", "U+1CD5", "U+1CD6", "U+1CD7", "U+1CD8",
    "U+1CD9", "U+1CDA", "U+1CDB", "U+1CDC", "U+1CDD", "U+1CDE", "U+1CDF", "U+1CE0", "U+1CE2",
    "U+1CE3", "U+1CE4", "U+1CE5", "U+1CE6", "U+1CE7", "U+1CE8", "U+1CED", "U+1CF4", "U+1CF8",
    "U+1CF9", "U+1D2C", "U+1D2D", "U+1D2E", "U+1D2F", "U+1D30", "U+1D31", "U+1D32", "U+1D33",
    "U+1D34", "U+1D35", "U+1D36", "U+1D37", "U+1D38", "U+1D39", "U+1D3A", "U+1D3B", "U+1D3C",
    "U+1D3D", "U+1D3E", "U+1D3F", "U+1D40", "U+1D41", "U+1D42", "U+1D43", "U+1D44", "U+1D45",
    "U+1D46", "U+1D47", "U+1D48", "U+1D49", "U+1D4A", "U+1D4B", "U+1D4C", "U+1D4D", "U+1D4E",
    "U+1D4F", "U+1D50", "U+1D51", "U+1D52", "U+1D53", "U+1D54", "U+1D55", "U+1D56", "U+1D57",
    "U+1D58", "U+1D59", "U+1D5A", "U+1D5B", "U+1D5C", "U+1D5D", "U+1D5E", "U+1D5F", "U+1D60",
    "U+1D61", "U+1D62", "U+1D63", "U+1D64", "U+1D65", "U+1D66", "U+1D67", "U+1D68", "U+1D69",
    "U+1D6A", "U+1D78", "U+1D9B", "U+1D9C", "U+1D9D", "U+1D9E", "U+1D9F", "U+1DA0", "U+1DA1",
    "U+1DA2", "U+1DA3", "U+1DA4", "U+1DA5", "U+1DA6", "U+1DA7", "U+1DA8", "U+1DA9", "U+1DAA",
    "U+1DAB", "U+1DAC", "U+1DAD", "U+1DAE", "U+1DAF", "U+1DB0", "U+1DB1", "U+1DB2", "U+1DB3",
    "U+1DB4", "U+1DB5", "U+1DB6", "U+1DB7", "U+1DB8", "U+1DB9", "U+1DBA", "U+1DBB", "U+1DBC",
    "U+1DBD", "U+1DBE", "U+1DBF", "U+1DC0", "U+1DC1", "U+1DC2", "U+1DC3", "U+1DC4", "U+1DC5",
    "U+1DC6", "U+1DC7", "U+1DC8", "U+1DC9", "U+1DCA", "U+1DCB", "U+1DCC", "U+1DCD", "U+1DCE",
    "U+1DCF", "U+1DD0", "U+1DD1", "U+1DD2", "U+1DD3", "U+1DD4", "U+1DD5", "U+1DD6", "U+1DD7",
    "U+1DD8", "U+1DD9", "U+1DDA", "U+1DDB", "U+1DDC", "U+1DDD", "U+1DDE", "U+1DDF", "U+1DE0",
    "U+1DE1", "U+1DE2", "U+1DE3", "U+1DE4", "U+1DE5", "U+1DE6", "U+1DE7", "U+1DE8", "U+1DE9",
    "U+1DEA", "U+1DEB", "U+1DEC", "U+1DED", "U+1DEE", "U+1DEF", "U+1DF0", "U+1DF1", "U+1DF2",
    "U+1DF3", "U+1DF4", "U+1DF5", "U+1DF6", "U+1DF7", "U+1DF8", "U+1DF9", "U+1DFA", "U+1DFB",
    "U+1DFC", "U+1DFD", "U+1DFE", "U+1DFF", "U+1FBD", "U+1FBF", "U+1FC0", "U+1FC1", "U+1FCD",
    "U+1FCE", "U+1FCF", "U+1FDD", "U+1FDE", "U+1FDF", "U+1FED", "U+1FEE", "U+1FEF", "U+1FFD",
    "U+1FFE", "U+200B", "U+200C", "U+200D", "U+200E", "U+200F", "U+2018", "U+2019", "U+2024",
    "U+2027", "U+202A", "U+202B", "U+202C", "U+202D", "U+202E", "U+2060", "U+2061", "U+2062",
    "U+2063", "U+2064", "U+2066", "U+2067", "U+2068", "U+2069", "U+206A", "U+206B", "U+206C",
    "U+206D", "U+206E", "U+206F", "U+2071", "U+207F", "U+2090", "U+2091", "U+2092", "U+2093",
    "U+2094", "U+2095", "U+2096", "U+2097", "U+2098", "U+2099", "U+209A", "U+209B", "U+209C",
    "U+20D0", "U+20D1", "U+20D2", "U+20D3", "U+20D4", "U+20D5", "U+20D6", "U+20D7", "U+20D8",
    "U+20D9", "U+20DA", "U+20DB", "U+20DC", "U+20DD", "U+20DE", "U+20DF", "U+20E0", "U+20E1",
    "U+20E2", "U+20E3", "U+20E4", "U+20E5", "U+20E6", "U+20E7", "U+20E8", "U+20E9", "U+20EA",
    "U+20EB", "U+20EC", "U+20ED", "U+20EE", "U+20EF", "U+20F0", "U+2C7C", "U+2C7D", "U+2CEF",
    "U+2CF0", "U+2CF1", "U+2D6F", "U+2D7F", "U+2DE0", "U+2DE1", "U+2DE2", "U+2DE3", "U+2DE4",
    "U+2DE5", "U+2DE6", "U+2DE7", "U+2DE8", "U+2DE9", "U+2DEA", "U+2DEB", "U+2DEC", "U+2DED",
    "U+2DEE", "U+2DEF", "U+2DF0", "U+2DF1", "U+2DF2", "U+2DF3", "U+2DF4", "U+2DF5", "U+2DF6",
    "U+2DF7", "U+2DF8", "U+2DF9", "U+2DFA", "U+2DFB", "U+2DFC", "U+2DFD", "U+2DFE", "U+2DFF",
    "U+2E2F", "U+3005", "U+302A", "U+302B", "U+302C", "U+302D", "U+3031", "U+3032", "U+3033",
    "U+3034", "U+3035", "U+303B", "U+3099", "U+309A", "U+309B", "U+309C", "U+309D", "U+309E",
    "U+30FC", "U+30FD", "U+30FE", "U+A015", "U+A4F8", "U+A4F9", "U+A4FA", "U+A4FB", "U+A4FC",
    "U+A4FD", "U+A60C", "U+A66F", "U+A670", "U+A671", "U+A672", "U+A674", "U+A675", "U+A676",
    "U+A677", "U+A678", "U+A679", "U+A67A", "U+A67B", "U+A67C", "U+A67D", "U+A67F", "U+A69C",
    "U+A69D", "U+A69E", "U+A69F", "U+A6F0", "U+A6F1", "U+A700", "U+A701", "U+A702", "U+A703",
    "U+A704", "U+A705", "U+A706", "U+A707", "U+A708", "U+A709", "U+A70A", "U+A70B", "U+A70C",
    "U+A70D", "U+A70E", "U+A70F", "U+A710", "U+A711", "U+A712", "U+A713", "U+A714", "U+A715",
    "U+A716", "U+A717", "U+A718", "U+A719", "U+A71A", "U+A71B", "U+A71C", "U+A71D", "U+A71E",
    "U+A71F", "U+A720", "U+A721", "U+A770", "U+A788", "U+A789", "U+A78A", "U+A7F2", "U+A7F3",
    "U+A7F4", "U+A7F8", "U+A7F9", "U+A802", "U+A806", "U+A80B", "U+A825", "U+A826", "U+A82C",
    "U+A8C4", "U+A8C5", "U+A8E0", "U+A8E1", "U+A8E2", "U+A8E3", "U+A8E4", "U+A8E5", "U+A8E6",
    "U+A8E7", "U+A8E8", "U+A8E9", "U+A8EA", "U+A8EB", "U+A8EC", "U+A8ED", "U+A8EE", "U+A8EF",
    "U+A8F0", "U+A8F1", "U+A8FF", "U+A926", "U+A927", "U+A928", "U+A929", "U+A92A", "U+A92B",
    "U+A92C", "U+A92D", "U+A947", "U+A948", "U+A949", "U+A94A", "U+A94B", "U+A94C", "U+A94D",
    "U+A94E", "U+A94F", "U+A950", "U+A951", "U+A980", "U+A981", "U+A982", "U+A9B3", "U+A9B6",
    "U+A9B7", "U+A9B8", "U+A9B9", "U+A9BC", "U+A9BD", "U+A9CF", "U+A9E5", "U+A9E6", "U+AA29",
    "U+AA2A", "U+AA2B", "U+AA2C", "U+AA2D", "U+AA2E", "U+AA31", "U+AA32", "U+AA35", "U+AA36",
    "U+AA43", "U+AA4C", "U+AA70", "U+AA7C", "U+AAB0", "U+AAB2", "U+AAB3", "U+AAB4", "U+AAB7",
    "U+AAB8", "U+AABE", "U+AABF", "U+AAC1", "U+AADD", "U+AAEC", "U+AAED", "U+AAF3", "U+AAF4",
    "U+AAF6", "U+AB5B", "U+AB5C", "U+AB5D", "U+AB5E", "U+AB5F", "U+AB69", "U+AB6A", "U+AB6B",
    "U+ABE5", "U+ABE8", "U+ABED", "U+FB1E", "U+FBB2", "U+FBB3", "U+FBB4", "U+FBB5", "U+FBB6",
    "U+FBB7", "U+FBB8", "U+FBB9", "U+FBBA", "U+FBBB", "U+FBBC", "U+FBBD", "U+FBBE", "U+FBBF",
    "U+FBC0", "U+FBC1", "U+FBC2", "U+FE00", "U+FE01", "U+FE02", "U+FE03", "U+FE04", "U+FE05",
    "U+FE06", "U+FE07", "U+FE08", "U+FE09", "U+FE0A", "U+FE0B", "U+FE0C", "U+FE0D", "U+FE0E",
    "U+FE0F", "U+FE13", "U+FE20", "U+FE21", "U+FE22", "U+FE23", "U+FE24", "U+FE25", "U+FE26",
    "U+FE27", "U+FE28", "U+FE29", "U+FE2A", "U+FE2B", "U+FE2C", "U+FE2D", "U+FE2E", "U+FE2F",
    "U+FE52", "U+FE55", "U+FEFF", "U+FF07", "U+FF0E", "U+FF1A", "U+FF3E", "U+FF40", "U+FF70",
    "U+FF9E", "U+FF9F", "U+FFE3", "U+FFF9", "U+FFFA", "U+FFFB", "U+101FD", "U+102E0", "U+10376",
    "U+10377", "U+10378", "U+10379", "U+1037A", "U+10780", "U+10781", "U+10782", "U+10783",
    "U+10784", "U+10785", "U+10787", "U+10788", "U+10789", "U+1078A", "U+1078B", "U+1078C",
    "U+1078D", "U+1078E", "U+1078F", "U+10790", "U+10791", "U+10792", "U+10793", "U+10794",
    "U+10795", "U+10796", "U+10797", "U+10798", "U+10799", "U+1079A", "U+1079B", "U+1079C",
    "U+1079D", "U+1079E", "U+1079F", "U+107A0", "U+107A1", "U+107A2", "U+107A3", "U+107A4",
    "U+107A5", "U+107A6", "U+107A7", "U+107A8", "U+107A9", "U+107AA", "U+107AB", "U+107AC",
    "U+107AD", "U+107AE", "U+107AF", "U+107B0", "U+107B2", "U+107B3", "U+107B4", "U+107B5",
    "U+107B6", "U+107B7", "U+107B8", "U+107B9", "U+107BA", "U+10A01", "U+10A02", "U+10A03",
    "U+10A05", "U+10A06", "U+10A0C", "U+10A0D", "U+10A0E", "U+10A0F", "U+10A38", "U+10A39",
    "U+10A3A", "U+10A3F", "U+10AE5", "U+10AE6", "U+10D24", "U+10D25", "U+10D26", "U+10D27",
    "U+10EAB", "U+10EAC", "U+10F46", "U+10F47", "U+10F48", "U+10F49", "U+10F4A", "U+10F4B",
    "U+10F4C", "U+10F4D", "U+10F4E", "U+10F4F", "U+10F50", "U+10F82", "U+10F83", "U+10F84",
    "U+10F85", "U+11001", "U+11038", "U+11039", "U+1103A", "U+1103B", "U+1103C", "U+1103D",
    "U+1103E", "U+1103F", "U+11040", "U+11041", "U+11042", "U+11043", "U+11044", "U+11045",
    "U+11046", "U+11070", "U+11073", "U+11074", "U+1107F", "U+11080", "U+11081", "U+110B3",
    "U+110B4", "U+110B5", "U+110B6", "U+110B9", "U+110BA", "U+110BD", "U+110C2", "U+110CD",
    "U+11100", "U+11101", "U+11102", "U+11127", "U+11128", "U+11129", "U+1112A", "U+1112B",
    "U+1112D", "U+1112E", "U+1112F", "U+11130", "U+11131", "U+11132", "U+11133", "U+11134",
    "U+11173", "U+11180", "U+11181", "U+111B6", "U+111B7", "U+111B8", "U+111B9", "U+111BA",
    "U+111BB", "U+111BC", "U+111BD", "U+111BE", "U+111C9", "U+111CA", "U+111CB", "U+111CC",
    "U+111CF", "U+1122F", "U+11230", "U+11231", "U+11234", "U+11236", "U+11237", "U+1123E",
    "U+112DF", "U+112E3", "U+112E4", "U+112E5", "U+112E6", "U+112E7", "U+112E8", "U+112E9",
    "U+112EA", "U+11300", "U+11301", "U+1133B", "U+1133C", "U+11340", "U+11366", "U+11367",
    "U+11368", "U+11369", "U+1136A", "U+1136B", "U+1136C", "U+11370", "U+11371", "U+11372",
    "U+11373", "U+11374", "U+11438", "U+11439", "U+1143A", "U+1143B", "U+1143C", "U+1143D",
    "U+1143E", "U+1143F", "U+11442", "U+11443", "U+11444", "U+11446", "U+1145E", "U+114B3",
    "U+114B4", "U+114B5", "U+114B6", "U+114B7", "U+114B8", "U+114BA", "U+114BF", "U+114C0",
    "U+114C2", "U+114C3", "U+115B2", "U+115B3", "U+115B4", "U+115B5", "U+115BC", "U+115BD",
    "U+115BF", "U+115C0", "U+115DC", "U+115DD", "U+11633", "U+11634", "U+11635", "U+11636",
    "U+11637", "U+11638", "U+11639", "U+1163A", "U+1163D", "U+1163F", "U+11640", "U+116AB",
    "U+116AD", "U+116B0", "U+116B1", "U+116B2", "U+116B3", "U+116B4", "U+116B5", "U+116B7",
    "U+1171D", "U+1171E", "U+1171F", "U+11722", "U+11723", "U+11724", "U+11725", "U+11727",
    "U+11728", "U+11729", "U+1172A", "U+1172B", "U+1182F", "U+11830", "U+11831", "U+11832",
    "U+11833", "U+11834", "U+11835", "U+11836", "U+11837", "U+11839", "U+1183A", "U+1193B",
    "U+1193C", "U+1193E", "U+11943", "U+119D4", "U+119D5", "U+119D6", "U+119D7", "U+119DA",
    "U+119DB", "U+119E0", "U+11A01", "U+11A02", "U+11A03", "U+11A04", "U+11A05", "U+11A06",
    "U+11A07", "U+11A08", "U+11A09", "U+11A0A", "U+11A33", "U+11A34", "U+11A35", "U+11A36",
    "U+11A37", "U+11A38", "U+11A3B", "U+11A3C", "U+11A3D", "U+11A3E", "U+11A47", "U+11A51",
    "U+11A52", "U+11A53", "U+11A54", "U+11A55", "U+11A56", "U+11A59", "U+11A5A", "U+11A5B",
    "U+11A8A", "U+11A8B", "U+11A8C", "U+11A8D", "U+11A8E", "U+11A8F", "U+11A90", "U+11A91",
    "U+11A92", "U+11A93", "U+11A94", "U+11A95", "U+11A96", "U+11A98", "U+11A99", "U+11C30",
    "U+11C31", "U+11C32", "U+11C33", "U+11C34", "U+11C35", "U+11C36", "U+11C38", "U+11C39",
    "U+11C3A", "U+11C3B", "U+11C3C", "U+11C3D", "U+11C3F", "U+11C92", "U+11C93", "U+11C94",
    "U+11C95", "U+11C96", "U+11C97", "U+11C98", "U+11C99", "U+11C9A", "U+11C9B", "U+11C9C",
    "U+11C9D", "U+11C9E", "U+11C9F", "U+11CA0", "U+11CA1", "U+11CA2", "U+11CA3", "U+11CA4",
    "U+11CA5", "U+11CA6", "U+11CA7", "U+11CAA", "U+11CAB", "U+11CAC", "U+11CAD", "U+11CAE",
    "U+11CAF", "U+11CB0", "U+11CB2", "U+11CB3", "U+11CB5", "U+11CB6", "U+11D31", "U+11D32",
    "U+11D33", "U+11D34", "U+11D35", "U+11D36", "U+11D3A", "U+11D3C", "U+11D3D", "U+11D3F",
    "U+11D40", "U+11D41", "U+11D42", "U+11D43", "U+11D44", "U+11D45", "U+11D47", "U+11D90",
    "U+11D91", "U+11D95", "U+11D97", "U+11EF3", "U+11EF4", "U+13430", "U+13431", "U+13432",
    "U+13433", "U+13434", "U+13435", "U+13436", "U+13437", "U+13438", "U+16AF0", "U+16AF1",
    "U+16AF2", "U+16AF3", "U+16AF4", "U+16B30", "U+16B31", "U+16B32", "U+16B33", "U+16B34",
    "U+16B35", "U+16B36", "U+16B40", "U+16B41", "U+16B42", "U+16B43", "U+16F4F", "U+16F8F",
    "U+16F90", "U+16F91", "U+16F92", "U+16F93", "U+16F94", "U+16F95", "U+16F96", "U+16F97",
    "U+16F98", "U+16F99", "U+16F9A", "U+16F9B", "U+16F9C", "U+16F9D", "U+16F9E", "U+16F9F",
    "U+16FE0", "U+16FE1", "U+16FE3", "U+16FE4", "U+1AFF0", "U+1AFF1", "U+1AFF2", "U+1AFF3",
    "U+1AFF5", "U+1AFF6", "U+1AFF7", "U+1AFF8", "U+1AFF9", "U+1AFFA", "U+1AFFB", "U+1AFFD",
    "U+1AFFE", "U+1BC9D", "U+1BC9E", "U+1BCA0", "U+1BCA1", "U+1BCA2", "U+1BCA3", "U+1CF00",
    "U+1CF01", "U+1CF02", "U+1CF03", "U+1CF04", "U+1CF05", "U+1CF06", "U+1CF07", "U+1CF08",
    "U+1CF09", "U+1CF0A", "U+1CF0B", "U+1CF0C", "U+1CF0D", "U+1CF0E", "U+1CF0F", "U+1CF10",
    "U+1CF11", "U+1CF12", "U+1CF13", "U+1CF14", "U+1CF15", "U+1CF16", "U+1CF17", "U+1CF18",
    "U+1CF19", "U+1CF1A", "U+1CF1B", "U+1CF1C", "U+1CF1D", "U+1CF1E", "U+1CF1F", "U+1CF20",
    "U+1CF21", "U+1CF22", "U+1CF23", "U+1CF24", "U+1CF25", "U+1CF26", "U+1CF27", "U+1CF28",
    "U+1CF29", "U+1CF2A", "U+1CF2B", "U+1CF2C", "U+1CF2D", "U+1CF30", "U+1CF31", "U+1CF32",
    "U+1CF33", "U+1CF34", "U+1CF35", "U+1CF36", "U+1CF37", "U+1CF38", "U+1CF39", "U+1CF3A",
    "U+1CF3B", "U+1CF3C", "U+1CF3D", "U+1CF3E", "U+1CF3F", "U+1CF40", "U+1CF41", "U+1CF42",
    "U+1CF43", "U+1CF44", "U+1CF45", "U+1CF46", "U+1D167", "U+1D168", "U+1D169", "U+1D173",
    "U+1D174", "U+1D175", "U+1D176", "U+1D177", "U+1D178", "U+1D179", "U+1D17A", "U+1D17B",
    "U+1D17C", "U+1D17D", "U+1D17E", "U+1D17F", "U+1D180", "U+1D181", "U+1D182", "U+1D185",
    "U+1D186", "U+1D187", "U+1D188", "U+1D189", "U+1D18A", "U+1D18B", "U+1D1AA", "U+1D1AB",
    "U+1D1AC", "U+1D1AD", "U+1D242", "U+1D243", "U+1D244", "U+1DA00", "U+1DA01", "U+1DA02",
    "U+1DA03", "U+1DA04", "U+1DA05", "U+1DA06", "U+1DA07", "U+1DA08", "U+1DA09", "U+1DA0A",
    "U+1DA0B", "U+1DA0C", "U+1DA0D", "U+1DA0E", "U+1DA0F", "U+1DA10", "U+1DA11", "U+1DA12",
    "U+1DA13", "U+1DA14", "U+1DA15", "U+1DA16", "U+1DA17", "U+1DA18", "U+1DA19", "U+1DA1A",
    "U+1DA1B", "U+1DA1C", "U+1DA1D", "U+1DA1E", "U+1DA1F", "U+1DA20", "U+1DA21", "U+1DA22",
    "U+1DA23", "U+1DA24", "U+1DA25", "U+1DA26", "U+1DA27", "U+1DA28", "U+1DA29", "U+1DA2A",
    "U+1DA2B", "U+1DA2C", "U+1DA2D", "U+1DA2E", "U+1DA2F", "U+1DA30", "U+1DA31", "U+1DA32",
    "U+1DA33", "U+1DA34", "U+1DA35", "U+1DA36", "U+1DA3B", "U+1DA3C", "U+1DA3D", "U+1DA3E",
    "U+1DA3F", "U+1DA40", "U+1DA41", "U+1DA42", "U+1DA43", "U+1DA44", "U+1DA45", "U+1DA46",
    "U+1DA47", "U+1DA48", "U+1DA49", "U+1DA4A", "U+1DA4B", "U+1DA4C", "U+1DA4D", "U+1DA4E",
    "U+1DA4F", "U+1DA50", "U+1DA51", "U+1DA52", "U+1DA53", "U+1DA54", "U+1DA55", "U+1DA56",
    "U+1DA57", "U+1DA58", "U+1DA59", "U+1DA5A", "U+1DA5B", "U+1DA5C", "U+1DA5D", "U+1DA5E",
    "U+1DA5F", "U+1DA60", "U+1DA61", "U+1DA62", "U+1DA63", "U+1DA64", "U+1DA65", "U+1DA66",
    "U+1DA67", "U+1DA68", "U+1DA69", "U+1DA6A", "U+1DA6B", "U+1DA6C", "U+1DA75", "U+1DA84",
    "U+1DA9B", "U+1DA9C", "U+1DA9D", "U+1DA9E", "U+1DA9F", "U+1DAA1", "U+1DAA2", "U+1DAA3",
    "U+1DAA4", "U+1DAA5", "U+1DAA6", "U+1DAA7", "U+1DAA8", "U+1DAA9", "U+1DAAA", "U+1DAAB",
    "U+1DAAC", "U+1DAAD", "U+1DAAE", "U+1DAAF", "U+1E000", "U+1E001", "U+1E002", "U+1E003",
    "U+1E004", "U+1E005", "U+1E006", "U+1E008", "U+1E009", "U+1E00A", "U+1E00B", "U+1E00C",
    "U+1E00D", "U+1E00E", "U+1E00F", "U+1E010", "U+1E011", "U+1E012", "U+1E013", "U+1E014",
    "U+1E015", "U+1E016", "U+1E017", "U+1E018", "U+1E01B", "U+1E01C", "U+1E01D", "U+1E01E",
    "U+1E01F", "U+1E020", "U+1E021", "U+1E023", "U+1E024", "U+1E026", "U+1E027", "U+1E028",
    "U+1E029", "U+1E02A", "U+1E130", "U+1E131", "U+1E132", "U+1E133", "U+1E134", "U+1E135",
    "U+1E136", "U+1E137", "U+1E138", "U+1E139", "U+1E13A", "U+1E13B", "U+1E13C", "U+1E13D",
    "U+1E2AE", "U+1E2EC", "U+1E2ED", "U+1E2EE", "U+1E2EF", "U+1E8D0", "U+1E8D1", "U+1E8D2",
    "U+1E8D3", "U+1E8D4", "U+1E8D5", "U+1E8D6", "U+1E944", "U+1E945", "U+1E946", "U+1E947",
    "U+1E948", "U+1E949", "U+1E94A", "U+1E94B", "U+1F3FB", "U+1F3FC", "U+1F3FD", "U+1F3FE",
    "U+1F3FF", "U+E0001", "U+E0020", "U+E0021", "U+E0022", "U+E0023", "U+E0024", "U+E0025",
    "U+E0026", "U+E0027", "U+E0028", "U+E0029", "U+E002A", "U+E002B", "U+E002C", "U+E002D",
    "U+E002E", "U+E002F", "U+E0030", "U+E0031", "U+E0032", "U+E0033", "U+E0034", "U+E0035",
    "U+E0036", "U+E0037", "U+E0038", "U+E0039", "U+E003A", "U+E003B", "U+E003C", "U+E003D",
    "U+E003E", "U+E003F", "U+E0040", "U+E0041", "U+E0042", "U+E0043", "U+E0044", "U+E0045",
    "U+E0046", "U+E0047", "U+E0048", "U+E0049", "U+E004A", "U+E004B", "U+E004C", "U+E004D",
    "U+E004E", "U+E004F", "U+E0050", "U+E0051", "U+E0052", "U+E0053", "U+E0054", "U+E0055",
    "U+E0056", "U+E0057", "U+E0058", "U+E0059", "U+E005A", "U+E005B", "U+E005C", "U+E005D",
    "U+E005E", "U+E005F", "U+E0060", "U+E0061", "U+E0062", "U+E0063", "U+E0064", "U+E0065",
    "U+E0066", "U+E0067", "U+E0068", "U+E0069", "U+E006A", "U+E006B", "U+E006C", "U+E006D",
    "U+E006E", "U+E006F", "U+E0070", "U+E0071", "U+E0072", "U+E0073", "U+E0074", "U+E0075",
    "U+E0076", "U+E0077", "U+E0078", "U+E0079", "U+E007A", "U+E007B", "U+E007C", "U+E007D",
    "U+E007E", "U+E007F", "U+E0100", "U+E0101", "U+E0102", "U+E0103", "U+E0104", "U+E0105",
    "U+E0106", "U+E0107", "U+E0108", "U+E0109", "U+E010A", "U+E010B", "U+E010C", "U+E010D",
    "U+E010E", "U+E010F", "U+E0110", "U+E0111", "U+E0112", "U+E0113", "U+E0114", "U+E0115",
    "U+E0116", "U+E0117", "U+E0118", "U+E0119", "U+E011A", "U+E011B", "U+E011C", "U+E011D",
    "U+E011E", "U+E011F", "U+E0120", "U+E0121", "U+E0122", "U+E0123", "U+E0124", "U+E0125",
    "U+E0126", "U+E0127", "U+E0128", "U+E0129", "U+E012A", "U+E012B", "U+E012C", "U+E012D",
    "U+E012E", "U+E012F", "U+E0130", "U+E0131", "U+E0132", "U+E0133", "U+E0134", "U+E0135",
    "U+E0136", "U+E0137", "U+E0138", "U+E0139", "U+E013A", "U+E013B", "U+E013C", "U+E013D",
    "U+E013E", "U+E013F", "U+E0140", "U+E0141", "U+E0142", "U+E0143", "U+E0144", "U+E0145",
    "U+E0146", "U+E0147", "U+E0148", "U+E0149", "U+E014A", "U+E014B", "U+E014C", "U+E014D",
    "U+E014E", "U+E014F", "U+E0150", "U+E0151", "U+E0152", "U+E0153", "U+E0154", "U+E0155",
    "U+E0156", "U+E0157", "U+E0158", "U+E0159", "U+E015A", "U+E015B", "U+E015C", "U+E015D",
    "U+E015E", "U+E015F", "U+E0160", "U+E0161", "U+E0162", "U+E0163", "U+E0164", "U+E0165",
    "U+E0166", "U+E0167", "U+E0168", "U+E0169", "U+E016A", "U+E016B", "U+E016C", "U+E016D",
    "U+E016E", "U+E016F", "U+E0170", "U+E0171", "U+E0172", "U+E0173", "U+E0174", "U+E0175",
    "U+E0176", "U+E0177", "U+E0178", "U+E0179", "U+E017A", "U+E017B", "U+E017C", "U+E017D",
    "U+E017E", "U+E017F", "U+E0180", "U+E0181", "U+E0182", "U+E0183", "U+E0184", "U+E0185",
    "U+E0186", "U+E0187", "U+E0188", "U+E0189", "U+E018A", "U+E018B", "U+E018C", "U+E018D",
    "U+E018E", "U+E018F", "U+E0190", "U+E0191", "U+E0192", "U+E0193", "U+E0194", "U+E0195",
    "U+E0196", "U+E0197", "U+E0198", "U+E0199", "U+E019A", "U+E019B", "U+E019C", "U+E019D",
    "U+E019E", "U+E019F", "U+E01A0", "U+E01A1", "U+E01A2", "U+E01A3", "U+E01A4", "U+E01A5",
    "U+E01A6", "U+E01A7", "U+E01A8", "U+E01A9", "U+E01AA", "U+E01AB", "U+E01AC", "U+E01AD",
    "U+E01AE", "U+E01AF", "U+E01B0", "U+E01B1", "U+E01B2", "U+E01B3", "U+E01B4", "U+E01B5",
    "U+E01B6", "U+E01B7", "U+E01B8", "U+E01B9", "U+E01BA", "U+E01BB", "U+E01BC", "U+E01BD",
    "U+E01BE", "U+E01BF", "U+E01C0", "U+E01C1", "U+E01C2", "U+E01C3", "U+E01C4", "U+E01C5",
    "U+E01C6", "U+E01C7", "U+E01C8", "U+E01C9", "U+E01CA", "U+E01CB", "U+E01CC", "U+E01CD",
    "U+E01CE", "U+E01CF", "U+E01D0", "U+E01D1", "U+E01D2", "U+E01D3", "U+E01D4", "U+E01D5",
    "U+E01D6", "U+E01D7", "U+E01D8", "U+E01D9", "U+E01DA", "U+E01DB", "U+E01DC", "U+E01DD",
    "U+E01DE", "U+E01DF", "U+E01E0", "U+E01E1", "U+E01E2", "U+E01E3", "U+E01E4", "U+E01E5",
    "U+E01E6", "U+E01E7", "U+E01E8", "U+E01E9", "U+E01EA", "U+E01EB", "U+E01EC", "U+E01ED",
    "U+E01EE", "U+E01EF"
  }

\* the letters that have a case and are not skipped
Cased ==
  {
    "A", "B", "C", "D", "E", "F", "G", "H", "I", "J", "K", "L", "M", "N", "O", "P", "Q", "R",
    "S", "T", "U", "V", "W", "X", "Y", "Z", "a", "b", "c", "d", "e", "f", "g", "h", "i", "j",
    "k", "l", "m", "n", "o", "p", "q", "r", "s", "t", "u", "v", "w", "x", "y", "z", "U+00AA",
    "U+00B5", "U+00BA", "U+00C0", "U+00C1", "U+00C2", "U+00C3", "U+00C4", "U+00C5", "U+00C6",
    "U+00C7", "U+00C8", "U+00C9", "U+00CA", "U+00CB", "U+00CC", "U+00CD", "U+00CE", "U+00CF",
    "U+00D0", "U+00D1", "U+00D2", "U+00D3", "U+00D4", "U+00D5", "U+00D6", "U+00D8", "U+00D9",
    "U+00DA", "U+00DB", "U+00DC", "U+00DD", "U+00DE", "U+00DF", "U+00E0", "U+00E1", "U+00E2",
    "U+00E3", "U+00E4", "U+00E5", "U+00E6", "U+00E7", "U+00E8", "U+00E9", "U+00EA", "U+00EB",
    "U+00EC", "U+00ED", "U+00EE", "U+00EF", "U+00F0", "U+00F1", "U+00F2", "U+00F3", "U+00F4",
    "U+00F5", "U+00F6", "U+00F8", "U+00F9", "U+00FA", "U+00FB", "U+00FC", "U+00FD", "U+00FE",
    "U+00FF", "U+0100", "U+0101", "U+0102", "U+0103", "U+0104", "U+0105", "U+0106", "U+0107",
    "U+0108", "U+0109", "U+010A", "U+010B", "U+010C", "U+010D", "U+010E", "U+010F", "U+0110",
    "U+0111", "U+0112", "U+0113", "U+0114", "U+0115", "U+0116", "U+0117", "U+0118", "U+0119",
    "U+011A", "U+011B", "U+011C", "U+011D", "U+011E", "U+011F", "U+0120", "U+0121", "U+0122",
    "U+0123", "U+0124", "U+0125", "U+0126", "U+0127", "U+0128", "U+0129", "U+012A", "U+012B",
    "U+012C", "U+012D", "U+012E", "U+012F", "U+0130", "U+0131", "U+0132", "U+0133", "U+0134",
    "U+0135", "U+0136", "U+0137", "U+0138", "U+0139", "U+013A", "U+013B", "U+013C", "U+013D",
    "U+013E", "U+013F", "U+0140", "U+0141", "U+0142", "U+0143", "U+0144", "U+0145", "U+0146",
    "U+0147", "U+0148", "U+0149", "U+014A", "U+014B", "U+014C", "U+014D", "U+014E", "U+014F",
    "U+0150", "U+0151", "U+0152", "U+0153", "U+0154", "U+0155", "U+0156", "U+0157", "U+0158",
    "U+0159", "U+015A", "U+015B", "U+015C", "U+015D", "U+015E", "U+015F", "U+0160", "U+0161",
    "U+0162", "U+0163", "U+0164", "U+0165", "U+0166", "U+0167", "U+0168", "U+0169", "U+016A",
    "U+016B", "U+016C", "U+016D", "U+016E", "U+016F", "U+0170", "U+0171", "U+0172", "U+0173",
    "U+0174", "U+0175", "U+0176", "U+0177", "U+0178", "U+0179", "U+017A", "U+017B", "U+017C",
    "U+017D", "U+017E", "U+017F", "U+0180", "U+0181", "U+0182", "U+0183", "U+0184", "U+0185",
    "U+0186", "U+0187", "U+0188", "U+0189", "U+018A", "U+018B", "U+018C", "U+018D", "U+018E",
    "U+018F", "U+0190", "U+0191", "U+0192", "U+0193", "U+0194", "U+0195", "U+0196", "U+0197",
    "U+0198", "U+0199", "U+019A", "U+019B", "U+019C", "U+019D", "U+019E", "U+019F", "U+01A0",
    "U+01A1", "U+01A2", "U+01A3", "U+01A4", "U+01A5", "U+01A6", "U+01A7", "U+01A8", "U+01A9",
    "U+01AA", "U+01AB", "U+01AC", "U+01AD", "U+01AE", "U+01AF", "U+01B0", "U+01B1", "U+01B2",
    "U+01B3", "U+01B4", "U+01B5", "U+01B6", "U+01B7", "U+01B8", "U+01B9", "U+01BA", "U+01BC",
    "U+01BD", "U+01BE", "U+01BF", "U+01C4", "U+01C5", "U+01C6", "U+01C7", "U+01C8", "U+01C9",
    "U+01CA", "U+01CB", "U+01CC", "U+01CD", "U+01CE", "U+01CF", "U+01D0", "U+01D1", "U+01D2",
    "U+01D3", "U+01D4", "U+01D5", "U+01D6", "U+01D7", "U+01D8", "U+01D9", "U+01DA", "U+01DB",
    "U+01DC", "U+01DD", "U+01DE", "U+01DF", "U+01E0", "U+01E1", "U+01E2", "U+01E3", "U+01E4",
    "U+01E5", "U+01E6", "U+01E7", "U+01E8", "U+01E9", "U+01EA", "U+01EB", "U+01EC", "U+01ED",
    "U+01EE", "U+01EF", "U+01F0", "U+01F1", "U+01F2", "U+01F3", "U+01F4", "U+01F5", "U+01F6",
    "U+01F7", "U+01F8", "U+01F9", "U+01FA", "U+01FB", "U+01FC", "U+01FD", "U+01FE", "U+01FF",
    "U+0200", "U+0201", "U+0202", "U+0203", "U+0204", "U+0205", "U+0206", "U+0207", "U+0208",
    "U+0209", "U+020A", "U+020B", "U+020C", "U+020D", "U+020E", "U+020F", "U+0210", "U+0211",
    "U+0212", "U+0213", "U+0214", "U+0215", "U+0216", "U+0217", "U+0218", "U+0219", "U+021A",
    "U+021B", "U+021C", "U+021D", "U+021E", "U+021F", "U+0220", "U+0221", "U+0222", "U+0223",
    "U+0224", "U+0225", "U+0226", "U+0227", "U+0228", "U+0229", "U+022A", "U+022B", "U+022C",
    "U+022D", "U+022E", "U+022F", "U+0230", "U+0231", "U+0232", "U+0233", "U+0234", "U+0235",
    "U+0236", "U+0237", "U+0238", "U+0239", "U+023A", "U+023B", "U+023C", "U+023D", "U+023E",
    "U+023F", "U+0240", "U+0241", "U+0242", "U+0243", "U+0244", "U+0245", "U+0246", "U+0247",
    "U+0248", "U+0249", "U+024A", "U+024B", "U+024C", "U+024D", "U+024E", "U+024F", "U+0250",
    "U+0251", "U+0252", "U+0253", "U+0254", "U+0255", "U+0256", "U+0257", "U+0258", "U+0259",
    "U+025A", "U+025B", "U+025C", "U+025D", "U+025E", "U+025F", "U+0260", "U+0261", "U+0262",
    "U+0263", "U+0264", "U+0265", "U+0266", "U+0267", "U+0268", "U+0269", "U+026A", "U+026B",
    "U+026C", "U+026D", "U+026E", "U+026F", "U+0270", "U+0271", "U+0272", "U+0273", "U+0274",
    "U+0275", "U+0276", "U+0277", "U+0278", "U+0279", "U+027A", "U+027B", "U+027C", "U+027D",
    "U+027E", "U+027F", "U+0280", "U+0281", "U+0282", "U+0283", "U+0284", "U+0285", "U+0286",
    "U+0287", "U+0288", "U+0289", "U+028A", "U+028B", "U+028C", "U+028D", "U+028E", "U+028F",
    "U+0290", "U+0291", "U+0292", "U+0293", "U+0295", "U+0296", "U+0297", "U+0298", "U+0299",
    "U+029A", "U+029B", "U+029C", "U+029D", "U+029E", "U+029F", "U+02A0", "U+02A1", "U+02A2",
    "U+02A3", "U+02A4", "U+02A5", "U+02A6", "U+02A7", "U+02A8", "U+02A9", "U+02AA", "U+02AB",
    "U+02AC", "U+02AD", "U+02AE", "U+02AF", "U+0370", "U+0371", "U+0372", "U+0373", "U+0376",
    "U+0377", "U+037B", "U+037C", "U+037D", "U+037F", "U+0386", "U+0388", "U+0389", "U+038A",
    "U+038C", "U+038E", "U+038F", "U+0390", "U+0391", "U+0392", "U+0393", "U+0394", "U+0395",
    "U+0396", "U+0397", "U+0398", "U+0399", "U+039A", "U+039B", "U+039C", "U+039D", "U+039E",
    "U+039F", "U+03A0", "U+03A1", "U+03A3", "U+03A4", "U+03A5", "U+03A6", "U+03A7", "U+03A8",
    "U+03A9", "U+03AA", "U+03AB", "U+03AC", "U+03AD", "U+03AE", "U+03AF", "U+03B0", "U+03B1",
    "U+03B2", "U+03B3", "U+03B4", "U+03B5", "U+03B6", "U+03B7", "U+03B8", "U+03B9", "U+03BA",
    "U+03BB", "U+03BC", "U+03BD", "U+03BE", "U+03BF", "U+03C0", "U+03C1", "U+03C2", "U+03C3",
    "U+03C4", "U+03C5", "U+03C6", "U+03C7", "U+03C8", "U+03C9", "U+03CA", "U+03CB", "U+03CC",
    "U+03CD", "U+03CE", "U+03CF", "U+03D0", "U+03D1", "U+03D2", "U+03D3", "U+03D4", "U+03D5",
    "U+03D6", "U+03D7", "U+03D8", "U+03D9", "U+03DA", "U+03DB", "U+03DC", "U+03DD", "U+03DE",
    "U+03DF", "U+03E0", "U+03E1", "U+03E2", "U+03E3", "U+03E4", "U+03E5", "U+03E6", "U+03E7",
    "U+03E8", "U+03E9", "U+03EA", "U+03EB", "U+03EC", "U+03ED", "U+03EE", "U+03EF", "U+03F0",
    "U+03F1", "U+03F2", "U+03F3", "U+03F4", "U+03F5", "U+03F7", "U+03F8", "U+03F9", "U+03FA",
    "U+03FB", "U+03FC", "U+03FD", "U+03FE", "U+03FF", "U+0400", "U+0401", "U+0402", "U+0403",
    "U+0404", "U+0405", "U+0406", "U+0407", "U+0408", "U+0409", "U+040A", "U+040B", "U+040C",
    "U+040D", "U+040E", "U+040F", "U+0410", "U+0411", "U+0412", "U+0413", "U+0414", "U+0415",
    "U+0416", "U+0417", "U+0418", "U+0419", "U+041A", "U+041B", "U+041C", "U+041D", "U+041E",
    "U+041F", "U+0420", "U+0421", "U+0422", "U+0423", "U+0424", "U+0425", "U+0426", "U+0427",
    "U+0428", "U+0429", "U+042A", "U+042B", "U+042C", "U+042D", "U+042E", "U+042F", "U+0430",
    "U+0431", "U+0432", "U+0433", "U+0434", "U+0435", "U+0436", "U+0437", "U+0438", "U+0439",
    "U+043A", "U+043B", "U+043C", "U+043D", "U+043E", "U+043F", "U+0440", "U+0441", "U+0442",
    "U+0443", "U+0444", "U+0445", "U+0446", "U+0447", "U+0448", "U+0449", "U+044A", "U+044B",
    "U+044C", "U+044D", "U+044E", "U+044F", "U+0450", "U+0451", "U+0452", "U+0453", "U+0454",
    "U+0455", "U+0456", "U+0457", "U+0458", "U+0459", "U+045A", "U+045B", "U+045C", "U+045D",
    "U+045E", "U+045F", "U+0460", "U+0461", "U+0462", "U+0463", "U+0464", "U+0465", "U+0466",
    "U+0467", "U+0468", "U+0469", "U+046A", "U+046B", "U+046C", "U+046D", "U+046E", "U+046F",
    "U+0470", "U+0471", "U+0472", "U+0473", "U+0474", "U+0475", "U+0476", "U+0477", "U+0478",
    "U+0479", "U+047A", "U+047B", "U+047C", "U+047D", "U+047E", "U+047F", "U+0480", "U+0481",
    "U+048A", "U+048B", "U+048C", "U+048D", "U+048E", "U+048F", "U+0490", "U+0491", "U+0492",
    "U+0493", "U+0494", "U+0495", "U+0496", "U+0497", "U+0498", "U+0499", "U+049A", "U+049B",
    "U+049C", "U+049D", "U+049E", "U+049F", "U+04A0", "U+04A1", "U+04A2", "U+04A3", "U+04A4",
    "U+04A5", "U+04A6", "U+04A7", "U+04A8", "U+04A9", "U+04AA", "U+04AB", "U+04AC", "U+04AD",
    "U+04AE", "U+04AF", "U+04B0", "U+04B1", "U+04B2", "U+04B3", "U+04B4", "U+04B5", "U+04B6",
    "U+04B7", "U+04B8", "U+04B9", "U+04BA", "U+04BB", "U+04BC", "U+04BD", "U+04BE", "U+04BF",
    "U+04C0", "U+04C1", "U+04C2", "U+04C3", "U+04C4", "U+04C5", "U+04C6", "U+04C7", "U+04C8",
    "U+04C9", "U+04CA", "U+04CB", "U+04CC", "U+04CD", "U+04CE", "U+04CF", "U+04D0", "U+04D1",
    "U+04D2", "U+04D3", "U+04D4", "U+04D5", "U+04D6", "U+04D7", "U+04D8", "U+04D9", "U+04DA",
    "U+04DB", "U+04DC", "U+04DD", "U+04DE", "U+04DF", "U+04E0", "U+04E1", "U+04E2", "U+04E3",
    "U+04E4", "U+04E5", "U+04E6", "U+04E7", "U+04E8", "U+04E9", "U+04EA", "U+04EB", "U+04EC",
    "U+04ED", "U+04EE", "U+04EF", "U+04F0", "U+04F1", "U+04F2", "U+04F3", "U+04F4", "U+04F5",
    "U+04F6", "U+04F7", "U+04F8", "U+04F9", "U+04FA", "U+04FB", "U+04FC", "U+04FD", "U+04FE",
    "U+04FF", "U+0500", "U+0501", "U+0502", "U+0503", "U+0504", "U+0505", "U+0506", "U+0507",
    "U+0508", "U+0509", "U+050A", "U+050B", "U+050C", "U+050D", "U+050E", "U+050F", "U+0510",
    "U+0511", "U+0512", "U+0513", "U+0514", "U+0515", "U+0516", "U+0517", "U+0518", "U+0519",
    "U+051A", "U+051B", "U+051C", "U+051D", "U+051E", "U+051F", "U+0520", "U+0521", "U+0522",
    "U+0523", "U+0524", "U+0525", "U+0526", "U+0527", "U+0528", "U+0529", "U+052A", "U+052B",
    "U+052C", "U+052D", "U+052E", "U+052F", "U+0531", "U+0532", "U+0533", "U+0534", "U+0535",
    "U+0536", "U+0537", "U+0538", "U+0539", "U+053A", "U+053B", "U+053C", "U+053D", "U+053E",
    "U+053F", "U+0540", "U+0541", "U+0542", "U+0543", "U+0544", "U+0545", "U+0546", "U+0547",
    "U+0548", "U+0549", "U+054A", "U+054B", "U+054C", "U+054D", "U+054E", "U+054F", "U+0550",
    "U+0551", "U+0552", "U+0553", "U+0554", "U+0555", "U+0556", "U+0560", "U+0561", "U+0562",
    "U+0563", "U+0564", "U+0565", "U+0566", "U+0567", "U+0568", "U+0569", "U+056A", "U+056B",
    "U+056C", "U+056D", "U+056E", "U+056F", "U+0570", "U+0571", "U+0572", "U+0573", "U+0574",
    "U+0575", "U+0576", "U+0577", "U+0578", "U+0579", "U+057A", "U+057B", "U+057C", "U+057D",
    "U+057E", "U+057F", "U+0580", "U+0581", "U+0582", "U+0583", "U+0584", "U+0585", "U+0586",
    "U+0587", "U+0588", "U+10A0", "U+10A1", "U+10A2", "U+10A3", "U+10A4", "U+10A5", "U+10A6",
    "U+10A7", "U+10A8", "U+10A9", "U+10AA", "U+10AB", "U+10AC", "U+10AD", "U+10AE", "U+10AF",
    "U+10B0", "U+10B1", "U+10B2", "U+10B3", "U+10B4", "U+10B5", "U+10B6", "U+10B7", "U+10B8",
    "U+10B9", "U+10BA", "U+10BB", "U+10BC", "U+10BD", "U+10BE", "U+10BF", "U+10C0", "U+10C1",
    "U+10C2", "U+10C3", "U+10C4", "U+10C5", "U+10C7", "U+10CD", "U+10D0", "U+10D1", "U+10D2",
    "U+10D3", "U+10D4", "U+10D5", "U+10D6", "U+10D7", "U+10D8", "U+10D9", "U+10DA", "U+10DB",
    "U+10DC", "U+10DD", "U+10DE", "U+10DF", "U+10E0", "U+10E1", "U+10E2", "U+10E3", "U+10E4",
    "U+10E5", "U+10E6", "U+10E7", "U+10E8", "U+10E9", "U+10EA", "U+10EB", "U+10EC", "U+10ED",
    "U+10EE", "U+10EF", "U+10F0", "U+10F1", "U+10F2", "U+10F3", "U+10F4", "U+10F5", "U+10F6",
    "U+10F7", "U+10F8", "U+10F9", "U+10FA", "U+10FD", "U+10FE", "U+10FF", "U+13A0", "U+13A1",
    "U+13A2", "U+13A3", "U+13A4", "U+13A5", "U+13A6", "U+13A7", "U+13A8", "U+13A9", "U+13AA",
    "U+13AB", "U+13AC", "U+13AD", "U+13AE", "U+13AF", "U+13B0", "U+13B1", "U+13B2", "U+13B3",
    "U+13B4", "U+13B5", "U+13B6", "U+13B7", "U+13B8", "U+13B9", "U+13BA", "U+13BB", "U+13BC",
    "U+13BD", "U+13BE", "U+13BF", "U+13C0", "U+13C1", "U+13C2", "U+13C3", "U+13C4", "U+13C5",
    "U+13C6", "U+13C7", "U+13C8", "U+13C9", "U+13CA", "U+13CB", "U+13CC", "U+13CD", "U+13CE",
    "U+13CF", "U+13D0", "U+13D1", "U+13D2", "U+13D3", "U+13D4", "U+13D5", "U+13D6", "U+13D7",
    "U+13D8", "U+13D9", "U+13DA", "U+13DB", "U+13DC", "U+13DD", "U+13DE", "U+13DF", "U+13E0",
    "U+13E1", "U+13E2", "U+13E3", "U+13E4", "U+13E5", "U+13E6", "U+13E7", "U+13E8", "U+13E9",
    "U+13EA", "U+13EB", "U+13EC", "U+13ED", "U+13EE", "U+13EF", "U+13F0", "U+13F1", "U+13F2",
    "U+13F3", "U+13F4", "U+13F5", "U+13F8", "U+13F9", "U+13FA", "U+13FB", "U+13FC", "U+13FD",
    "U+1C80", "U+1C81", "U+1C82", "U+1C83", "U+1C84", "U+1C85", "U+1C86", "U+1C87", "U+1C88",
    "U+1C90", "U+1C91", "U+1C92", "U+1C93", "U+1C94", "U+1C95", "U+1C96", "U+1C97", "U+1C98",
    "U+1C99", "U+1C9A", "U+1C9B", "U+1C9C", "U+1C9D", "U+1C9E", "U+1C9F", "U+1CA0", "U+1CA1",
    "U+1CA2", "U+1CA3", "U+1CA4", "U+1CA5", "U+1CA6", "U+1CA7", "U+1CA8", "U+1CA9", "U+1CAA",
    "U+1CAB", "U+1CAC", "U+1CAD", "U+1CAE", "U+1CAF", "U+1CB0", "U+1CB1", "U+1CB2", "U+1CB3",
    "U+1CB4", "U+1CB5", "U+1CB6", "U+1CB7", "U+1CB8", "U+1CB9", "U+1CBA", "U+1CBD", "U+1CBE",
    "U+1CBF", "U+1D00", "U+1D01", "U+1D02", "U+1D03", "U+1D04", "U+1D05", "U+1D06", "U+1D07",
    "U+1D08", "U+1D09", "U+1D0A", "U+1D0B", "U+1D0C", "U+1D0D", "U+1D0E", "U+1D0F", "U+1D10",
    "U+1D11", "U+1D12", "U+1D13", "U+1D14", "U+1D15", "U+1D16", "U+1D17", "U+1D18", "U+1D19",
    "U+1D1A", "U+1D1B", "U+1D1C", "U+1D1D", "U+1D1E", "U+1D1F", "U+1D20", "U+1D21", "U+1D22",
    "U+1D23", "U+1D24", "U+1D25", "U+1D26", "U+1D27", "U+1D28", "U+1D29", "U+1D2A", "U+1D2B",
    "U+1D6B", "U+1D6C", "U+1D6D", "U+1D6E", "U+1D6F", "U+1D70", "U+1D71", "U+1D72", "U+1D73",
    "U+1D74", "U+1D75", "U+1D76", "U+1D77", "U+1D79", "U+1D7A", "U+1D7B", "U+1D7C", "U+1D7D",
    "U+1D7E", "U+1D7F", "U+1D80", "U+1D81", "U+1D82", "U+1D83", "U+1D84", "U+1D85", "U+1D86",
    "U+1D87", "U+1D88", "U+1D89", "U+1D8A", "U+1D8B", "U+1D8C", "U+1D8D", "U+1D8E", "U+1D8F",
    "U+1D90", "U+1D91", "U+1D92", "U+1D93", "U+1D94", "U+1D95", "U+1D96", "U+1D97", "U+1D98",
    "U+1D99", "U+1D9A", "U+1E00", "U+1E01", "U+1E02", "U+1E03", "U+1E04", "U+1E05", "U+1E06",
    "U+1E07", "U+1E08", "U+1E09", "U+1E0A", "U+1E0B", "U+1E0C", "U+1E0D", "U+1E0E", "U+1E0F",
    "U+1E10", "U+1E11", "U+1E12", "U+1E13", "U+1E14", "U+1E15", "U+1E16", "U+1E17", "U+1E18",
    "U+1E19", "U+1E1A", "U+1E1B", "U+1E1C", "U+1E1D", "U+1E1E", "U+1E1F", "U+1E20", "U+1E21",
    "U+1E22", "U+1E23", "U+1E24", "U+1E25", "U+1E26", "U+1E27", "U+1E28", "U+1E29", "U+1E2A",
    "U+1E2B", "U+1E2C", "U+1E2D", "U+1E2E", "U+1E2F", "U+1E30", "U+1E31", "U+1E32", "U+1E33",
    "U+1E34", "U+1E35", "U+1E36", "U+1E37", "U+1E38", "U+1E39", "U+1E3A", "U+1E3B", "U+1E3C",
    "U+1E3D", "U+1E3E", "U+1E3F", "U+1E40", "U+1E41", "U+1E42", "U+1E43", "U+1E44", "U+1E45",
    "U+1E46", "U+1E47", "U+1E48", "U+1E49", "U+1E4A", "U+1E4B", "U+1E4C", "U+1E4D", "U+1E4E",
    "U+1E4F", "U+1E50", "U+1E51", "U+1E52", "U+1E53", "U+1E54", "U+1E55", "U+1E56", "U+1E57",
    "U+1E58", "U+1E59", "U+1E5A", "U+1E5B", "U+1E5C", "U+1E5D", "U+1E5E", "U+1E5F", "U+1E60",
    "U+1E61", "U+1E62", "U+1E63", "U+1E64", "U+1E65", "U+1E66", "U+1E67", "U+1E68", "U+1E69",
    "U+1E6A", "U+1E6B", "U+1E6C", "U+1E6D", "U+1E6E", "U+1E6F", "U+1E70", "U+1E71", "U+1E72",
    "U+1E73", "U+1E74", "U+1E75", "U+1E76", "U+1E77", "U+1E78", "U+1E79", "U+1E7A", "U+1E7B",
    "U+1E7C", "U+1E7D", "U+1E7E", "U+1E7F", "U+1E80", "U+1E81", "U+1E82", "U+1E83", "U+1E84",
    "U+1E85", "U+1E86", "U+1E87", "U+1E88", "U+1E89", "U+1E8A", "U+1E8B", "U+1E8C", "U+1E8D",
    "U+1E8E", "U+1E8F", "U+1E90", "U+1E91", "U+1E92", "U+1E93", "U+1E94", "U+1E95", "U+1E96",
    "U+1E97", "U+1E98", "U+1E99", "U+1E9A", "U+1E9B", "U+1E9C", "U+1E9D", "U+1E9E", "U+1E9F",
    "U+1EA0", "U+1EA1", "U+1EA2", "U+1EA3", "U+1EA4", "U+1EA5", "U+1EA6", "U+1EA7", "U+1EA8",
    "U+1EA9", "U+1EAA", "U+1EAB", "U+1EAC", "U+1EAD", "U+1EAE", "U+1EAF", "U+1EB0", "U+1EB1",
    "U+1EB2", "U+1EB3", "U+1EB4", "U+1EB5", "U+1EB6", "U+1EB7", "U+1EB8", "U+1EB9", "U+1EBA",
    "U+1EBB", "U+1EBC", "U+1EBD", "U+1EBE", "U+1EBF", "U+1EC0", "U+1EC1", "U+1EC2", "U+1EC3",
    "U+1EC4", "U+1EC5", "U+1EC6", "U+1EC7", "U+1EC8", "U+1EC9", "U+1ECA", "U+1ECB", "U+1ECC",
    "U+1ECD", "U+1ECE", "U+1ECF", "U+1ED0", "U+1ED1", "U+1ED2", "U+1ED3", "U+1ED4", "U+1ED5",
    "U+1ED6", "U+1ED7", "U+1ED8", "U+1ED9", "U+1EDA", "U+1EDB", "U+1EDC", "U+1EDD", "U+1EDE",
    "U+1EDF", "U+1EE0", "U+1EE1", "U+1EE2", "U+1EE3", "U+1EE4", "U+1EE5", "U+1EE6", "U+1EE7",
    "U+1EE8", "U+1EE9", "U+1EEA", "U+1EEB", "U+1EEC", "U+1EED", "U+1EEE", "U+1EEF", "U+1EF0",
    "U+1EF1", "U+1EF2", "U+1EF3", "U+1EF4", "U+1EF5", "U+1EF6", "U+1EF7", "U+1EF8", "U+1EF9",
    "U+1EFA", "U+1EFB", "U+1EFC", "U+1EFD", "U+1EFE", "U+1EFF", "U+1F00", "U+1F01", "U+1F02",
    "U+1F03", "U+1F04", "U+1F05", "U+1F06", "U+1F07", "U+1F08", "U+1F09", "U+1F0A", "U+1F0B",
    "U+1F0C", "U+1F0D", "U+1F0E", "U+1F0F", "U+1F10", "U+1F11", "U+1F12", "U+1F13", "U+1F14",
    "U+1F15", "U+1F18", "U+1F19", "U+1F1A", "U+1F1B", "U+1F1C", "U+1F1D", "U+1F20", "U+1F21",
    "U+1F22", "U+1F23", "U+1F24", "U+1F25", "U+1F26", "U+1F27", "U+1F28", "U+1F29", "U+1F2A",
    "U+1F2B", "U+1F2C", "U+1F2D", "U+1F2E", "U+1F2F", "U+1F30", "U+1F31", "U+1F32", "U+1F33",
    "U+1F34", "U+1F35", "U+1F36", "U+1F37", "U+1F38", "U+1F39", "U+1F3A", "U+1F3B", "U+1F3C",
    "U+1F3D", "U+1F3E", "U+1F3F", "U+1F40", "U+1F41", "U+1F42", "U+1F43", "U+1F44", "U+1F45",
    "U+1F48", "U+1F49", "U+1F4A", "U+1F4B", "U+1F4C", "U+1F4D", "U+1F50", "U+1F51", "U+1F52",
    "U+1F53", "U+1F54", "U+1F55", "U+1F56", "U+1F57", "U+1F59", "U+1F5B", "U+1F5D", "U+1F5F",
    "U+1F60", "U+1F61", "U+1F62", "U+1F63", "U+1F64", "U+1F65", "U+1F66", "U+1F67", "U+1F68",
    "U+1F69", "U+1F6A", "U+1F6B", "U+1F6C", "U+1F6D", "U+1F6E", "U+1F6F", "U+1F70", "U+1F71",
    "U+1F72", "U+1F73", "U+1F74", "U+1F75", "U+1F76", "U+1F77", "U+1F78", "U+1F79", "U+1F7A",
    "U+1F7B", "U+1F7C", "U+1F7D", "U+1F80", "U+1F81", "U+1F82", "U+1F83", "U+1F84", "U+1F85",
    "U+1F86", "U+1F87", "U+1F88", "U+1F89", "U+1F8A", "U+1F8B", "U+1F8C", "U+1F8D", "U+1F8E",
    "U+1F8F", "U+1F90", "U+1F91", "U+1F92", "U+1F93", "U+1F94", "U+1F95", "U+1F96", "U+1F97",
    "U+1F98", "U+1F99", "U+1F9A", "U+1F9B", "U+1F9C", "U+1F9D", "U+1F9E", "U+1F9F", "U+1FA0",
    "U+1FA1", "U+1FA2", "U+1FA3", "U+1FA4", "U+1FA5", "U+1FA6", "U+1FA7", "U+1FA8", "U+1FA9",
    "U+1FAA", "U+1FAB", "U+1FAC", "U+1FAD", "U+1FAE", "U+1FAF", "U+1FB0", "U+1FB1", "U+1FB2",
    "U+1FB3", "U+1FB4", "U+1FB6", "U+1FB7", "U+1FB8", "U+1FB9", "U+1FBA", "U+1FBB", "U+1FBC",
    "U+1FBE", "U+1FC2", "U+1FC3", "U+1FC4", "U+1FC6", "U+1FC7", "U+1FC8", "U+1FC9", "U+1FCA",
    "U+1FCB", "U+1FCC", "U+1FD0", "U+1FD1", "U+1FD2", "U+1FD3", "U+1FD6", "U+1FD7", "U+1FD8",
    "U+1FD9", "U+1FDA", "U+1FDB", "U+1FE0", "U+1FE1", "U+1FE2", "U+1FE3", "U+1FE4", "U+1FE5",
    "U+1FE6", "U+1FE7", "U+1FE8", "U+1FE9", "U+1FEA", "U+1FEB", "U+1FEC", "U+1FF2", "U+1FF3",
    "U+1FF4", "U+1FF6", "U+1FF7", "U+1FF8", "U+1FF9", "U+1FFA", "U+1FFB", "U+1FFC", "U+2102",
    "U+2107", "U+210A", "U+210B", "U+210C", "U+210D", "U+210E", "U+210F", "U+2110", "U+2111",
    "U+2112", "U+2113", "U+2115", "U+2119", "U+211A", "U+211B", "U+211C", "U+211D", "U+2124",
    "U+2126", "U+2128", "U+212A", "U+212B", "U+212C", "U+212D", "U+212F", "U+2130", "U+2131",
    "U+2132", "U+2133", "U+2134", "U+2139", "U+213C", "U+213D", "U+213E", "U+213F", "U+2145",
    "U+2146", "U+2147", "U+2148", "U+2149", "U+214E", "U+2160", "U+2161", "U+2162", "U+2163",
    "U+2164", "U+2165", "U+2166", "U+2167", "U+2168", "U+2169", "U+216A", "U+216B", "U+216C",
    "U+216D", "U+216E", "U+216F", "U+2170", "U+2171", "U+2172", "U+2173", "U+2174", "U+2175",
    "U+2176", "U+2177", "U+2178", "U+2179", "U+217A", "U+217B", "U+217C", "U+217D", "U+217E",
    "U+217F", "U+2183", "U+2184", "U+24B6", "U+24B7", "U+24B8", "U+24B9", "U+24BA", "U+24BB",
    "U+24BC", "U+24BD", "U+24BE", "U+24BF", "U+24C0", "U+24C1", "U+24C2", "U+24C3", "U+24C4",
    "U+24C5", "U+24C6", "U+24C7", "U+24C8", "U+24C9", "U+24CA", "U+24CB", "U+24CC", "U+24CD",
    "U+24CE", "U+24CF", "U+24D0", "U+24D1", "U+24D2", "U+24D3", "U+24D4", "U+24D5", "U+24D6",
    "U+24D7", "U+24D8", "U+24D9", "U+24DA", "U+24DB", "U+24DC", "U+24DD", "U+24DE", "U+24DF",
    "U+24E0", "U+24E1", "U+24E2", "U+24E3", "U+24E4", "U+24E5", "U+24E6", "U+24E7", "U+24E8",
    "U+24E9", "U+2C00", "U+2C01", "U+2C02", "U+2C03", "U+2C04", "U+2C05", "U+2C06", "U+2C07",
    "U+2C08", "U+2C09", "U+2C0A", "U+2C0B", "U+2C0C", "U+2C0D", "U+2C0E", "U+2C0F", "U+2C10",
    "U+2C11", "U+2C12", "U+2C13", "U+2C14", "U+2C15", "U+2C16", "U+2C17", "U+2C18", "U+2C19",
    "U+2C1A", "U+2C1B", "U+2C1C", "U+2C1D", "U+2C1E", "U+2C1F", "U+2C20", "U+2C21", "U+2C22",
    "U+2C23", "U+2C24", "U+2C25", "U+2C26", "U+2C27", "U+2C28", "U+2C29", "U+2C2A", "U+2C2B",
    "U+2C2C", "U+2C2D", "U+2C2E", "U+2C2F", "U+2C30", "U+2C31", "U+2C32", "U+2C33", "U+2C34",
    "U+2C35", "U+2C36", "U+2C37", "U+2C38", "U+2C39", "U+2C3A", "U+2C3B", "U+2C3C", "U+2C3D",
    "U+2C3E", "U+2C3F", "U+2C40", "U+2C41", "U+2C42", "U+2C43", "U+2C44", "U+2C45", "U+2C46",
    "U+2C47", "U+2C48", "U+2C49", "U+2C4A", "U+2C4B", "U+2C4C", "U+2C4D", "U+2C4E", "U+2C4F",
    "U+2C50", "U+2C51", "U+2C52", "U+2C53", "U+2C54", "U+2C55", "U+2C56", "U+2C57", "U+2C58",
    "U+2C59", "U+2C5A", "U+2C5B", "U+2C5C", "U+2C5D", "U+2C5E", "U+2C5F", "U+2C60", "U+2C61",
    "U+2C62", "U+2C63", "U+2C64", "U+2C65", "U+2C66", "U+2C67", "U+2C68", "U+2C69", "U+2C6A",
    "U+2C6B", "U+2C6C", "U+2C6D", "U+2C6E", "U+2C6F", "U+2C70", "U+2C71", "U+2C72", "U+2C73",
    "U+2C74", "U+2C75", "U+2C76", "U+2C77", "U+2C78", "U+2C79", "U+2C7A", "U+2C7B", "U+2C7E",
    "U+2C7F", "U+2C80", "U+2C81", "U+2C82", "U+2C83", "U+2C84", "U+2C85", "U+2C86", "U+2C87",
    "U+2C88", "U+2C89", "U+2C8A", "U+2C8B", "U+2C8C", "U+2C8D", "U+2C8E", "U+2C8F", "U+2C90",
    "U+2C91", "U+2C92", "U+2C93", "U+2C94", "U+2C95", "U+2C96", "U+2C97", "U+2C98", "U+2C99",
    "U+2C9A", "U+2C9B", "U+2C9C", "U+2C9D", "U+2C9E", "U+2C9F", "U+2CA0", "U+2CA1", "U+2CA2",
    "U+2CA3", "U+2CA4", "U+2CA5", "U+2CA6", "U+2CA7", "U+2CA8", "U+2CA9", "U+2CAA", "U+2CAB",
    "U+2CAC", "U+2CAD", "U+2CAE", "U+2CAF", "U+2CB0", "U+2CB1", "U+2CB2", "U+2CB3", "U+2CB4",
    "U+2CB5", "U+2CB6", "U+2CB7", "U+2CB8", "U+2CB9", "U+2CBA", "U+2CBB", "U+2CBC", "U+2CBD",
    "U+2CBE", "U+2CBF", "U+2CC0", "U+2CC1", "U+2CC2", "U+2CC3", "U+2CC4", "U+2CC5", "U+2CC6",
    "U+2CC7", "U+2CC8", "U+2CC9", "U+2CCA", "U+2CCB", "U+2CCC", "U+2CCD", "U+2CCE", "U+2CCF",
    "U+2CD0", "U+2CD1", "U+2CD2", "U+2CD3", "U+2CD4", "U+2CD5", "U+2CD6", "U+2CD7", "U+2CD8",
    "U+2CD9", "U+2CDA", "U+2CDB", "U+2CDC", "U+2CDD", "U+2CDE", "U+2CDF", "U+2CE0", "U+2CE1",
    "U+2CE2", "U+2CE3", "U+2CE4", "U+2CEB", "U+2CEC", "U+2CED", "U+2CEE", "U+2CF2", "U+2CF3",
    "U+2D00", "U+2D01", "U+2D02", "U+2D03", "U+2D04", "U+2D05", "U+2D06", "U+2D07", "U+2D08",
    "U+2D09", "U+2D0A", "U+2D0B", "U+2D0C", "U+2D0D", "U+2D0E", "U+2D0F", "U+2D10", "U+2D11",
    "U+2D12", "U+2D13", "U+2D14", "U+2D15", "U+2D16", "U+2D17", "U+2D18", "U+2D19", "U+2D1A",
    "U+2D1B", "U+2D1C", "U+2D1D", "U+2D1E", "U+2D1F", "U+2D20", "U+2D21", "U+2D22", "U+2D23",
    "U+2D24", "U+2D25", "U+2D27", "U+2D2D", "U+A640", "U+A641", "U+A642", "U+A643", "U+A644",
    "U+A645", "U+A646", "U+A647", "U+A648", "U+A649", "U+A64A", "U+A64B", "U+A64C", "U+A64D",
    "U+A64E", "U+A64F", "U+A650", "U+A651", "U+A652", "U+A653", "U+A654", "U+A655", "U+A656",
    "U+A657", "U+A658", "U+A659", "U+A65A", "U+A65B", "U+A65C", "U+A65D", "U+A65E", "U+A65F",
    "U+A660", "U+A661", "U+A662", "U+A663", "U+A664", "U+A665", "U+A666", "U+A667", "U+A668",
    "U+A669", "U+A66A", "U+A66B", "U+A66C", "U+A66D", "U+A680", "U+A681", "U+A682", "U+A683",
    "U+A684", "U+A685", "U+A686", "U+A687", "U+A688", "U+A689", "U+A68A", "U+A68B", "U+A68C",
    "U+A68D", "U+A68E", "U+A68F", "U+A690", "U+A691", "U+A692", "U+A693", "U+A694", "U+A695",
    "U+A696", "U+A697", "U+A698", "U+A699", "U+A69A", "U+A69B", "U+A722", "U+A723", "U+A724",
    "U+A725", "U+A726", "U+A727", "U+A728", "U+A729", "U+A72A", "U+A72B", "U+A72C", "U+A72D",
    "U+A72E", "U+A72F", "U+A730", "U+A731", "U+A732", "U+A733", "U+A734", "U+A735", "U+A736",
    "U+A737", "U+A738", "U+A739", "U+A73A", "U+A73B", "U+A73C", "U+A73D", "U+A73E", "U+A73F",
    "U+A740", "U+A741", "U+A742", "U+A743", "U+A744", "U+A745", "U+A746", "U+A747", "U+A748",
    "U+A749", "U+A74A", "U+A74B", "U+A74C", "U+A74D", "U+A74E", "U+A74F", "U+A750", "U+A751",
    "U+A752", "U+A753", "U+A754", "U+A755", "U+A756", "U+A757", "U+A758", "U+A759", "U+A75A",
    "U+A75B", "U+A75C", "U+A75D", "U+A75E", "U+A75F", "U+A760", "U+A761", "U+A762", "U+A763",
    "U+A764", "U+A765", "U+A766", "U+A767", "U+A768", "U+A769", "U+A76A", "U+A76B", "U+A76C",
    "U+A76D", "U+A76E", "U+A76F", "U+A771", "U+A772", "U+A773", "U+A774", "U+A775", "U+A776",
    "U+A777", "U+A778", "U+A779", "U+A77A", "U+A77B", "U+A77C", "U+A77D", "U+A77E", "U+A77F",
    "U+A780", "U+A781", "U+A782", "U+A783", "U+A784", "U+A785", "U+A786", "U+A787", "U+A78B",
    "U+A78C", "U+A78D", "U+A78E", "U+A790", "U+A791", "U+A792", "U+A793", "U+A794", "U+A795",
    "U+A796", "U+A797", "U+A798", "U+A799", "U+A79A", "U+A79B", "U+A79C", "U+A79D", "U+A79E",
    "U+A79F", "U+A7A0", "U+A7A1", "U+A7A2", "U+A7A3", "U+A7A4", "U+A7A5", "U+A7A6", "U+A7A7",
    "U+A7A8", "U+A7A9", "U+A7AA", "U+A7AB", "U+A7AC", "U+A7AD", "U+A7AE", "U+A7AF", "U+A7B0",
    "U+A7B1", "U+A7B2", "U+A7B3", "U+A7B4", "U+A7B5", "U+A7B6", "U+A7B7", "U+A7B8", "U+A7B9",
    "U+A7BA", "U+A7BB", "U+A7BC", "U+A7BD", "U+A7BE", "U+A7BF", "U+A7C0", "U+A7C1", "U+A7C2",
    "U+A7C3", "U+A7C4", "U+A7C5", "U+A7C6", "U+A7C7", "U+A7C8", "U+A7C9", "U+A7CA", "U+A7D0",
    "U+A7D1", "U+A7D3", "U+A7D5", "U+A7D6", "U+A7D7", "U+A7D8", "U+A7D9", "U+A7F5", "U+A7F6",
    "U+A7FA", "U+AB30", "U+AB31", "U+AB32", "U+AB33", "U+AB34", "U+AB35", "U+AB36", "U+AB37",
    "U+AB38", "U+AB39", "U+AB3A", "U+AB3B", "U+AB3C", "U+AB3D", "U+AB3E", "U+AB3F", "U+AB40",
    "U+AB41", "U+AB42", "U+AB43", "U+AB44", "U+AB45", "U+AB46", "U+AB47", "U+AB48", "U+AB49",
    "U+AB4A", "U+AB4B", "U+AB4C", "U+AB4D", "U+AB4E", "U+AB4F", "U+AB50", "U+AB51", "U+AB52",
    "U+AB53", "U+AB54", "U+AB55", "U+AB56", "U+AB57", "U+AB58", "U+AB59", "U+AB5A", "U+AB60",
    "U+AB61", "U+AB62", "U+AB63", "U+AB64", "U+AB65", "U+AB66", "U+AB67", "U+AB68", "U+AB70",
    "U+AB71", "U+AB72", "U+AB73", "U+AB74", "U+AB75", "U+AB76", "U+AB77", "U+AB78", "U+AB79",
    "U+AB7A", "U+AB7B", "U+AB7C", "U+AB7D", "U+AB7E", "U+AB7F", "U+AB80", "U+AB81", "U+AB82",
    "U+AB83", "U+AB84", "U+AB85", "U+AB86", "U+AB87", "U+AB88", "U+AB89", "U+AB8A", "U+AB8B",
    "U+AB8C", "U+AB8D", "U+AB8E", "U+AB8F", "U+AB90", "U+AB91", "U+AB92", "U+AB93", "U+AB94",
    "U+AB95", "U+AB96", "U+AB97", "U+AB98", "U+AB99", "U+AB9A", "U+AB9B", "U+AB9C", "U+AB9D",
    "U+AB9E", "U+AB9F", "U+ABA0", "U+ABA1", "U+ABA2", "U+ABA3", "U+ABA4", "U+ABA5", "U+ABA6",
    "U+ABA7", "U+ABA8", "U+ABA9", "U+ABAA", "U+ABAB", "U+ABAC", "U+ABAD", "U+ABAE", "U+ABAF",
    "U+ABB0", "U+ABB1", "U+ABB2", "U+ABB3", "U+ABB4", "U+ABB5", "U+ABB6", "U+ABB7", "U+ABB8",
    "U+ABB9", "U+ABBA", "U+ABBB", "U+ABBC", "U+ABBD", "U+ABBE", "U+ABBF", "U+FB00", "U+FB01",
    "U+FB02", "U+FB03", "U+FB04", "U+FB05", "U+FB06", "U+FB13", "U+FB14", "U+FB15", "U+FB16",
    "U+FB17", "U+FF21", "U+FF22", "U+FF23", "U+FF24", "U+FF25", "U+FF26", "U+FF27", "U+FF28",
    "U+FF29", "U+FF2A", "U+FF2B", "U+FF2C", "U+FF2D", "U+FF2E", "U+FF2F", "U+FF30", "U+FF31",
    "U+FF32", "U+FF33", "U+FF34", "U+FF35", "U+FF36", "U+FF37", "U+FF38", "U+FF39", "U+FF3A",
    "U+FF41", "U+FF42", "U+FF43", "U+FF44", "U+FF45", "U+FF46", "U+FF47", "U+FF48", "U+FF49",
    "U+FF4A", "U+FF4B", "U+FF4C", "U+FF4D", "U+FF4E", "U+FF4F", "U+FF50", "U+FF51", "U+FF52",
    "U+FF53", "U+FF54", "U+FF55", "U+FF56", "U+FF57", "U+FF58", "U+FF59", "U+FF5A", "U+10400",
    "U+10401", "U+10402", "U+10403", "U+10404", "U+10405", "U+10406", "U+10407", "U+10408",
    "U+10409", "U+1040A", "U+1040B", "U+1040C", "U+1040D", "U+1040E", "U+1040F", "U+10410",
    "U+10411", "U+10412", "U+10413", "U+10414", "U+10415", "U+10416", "U+10417", "U+10418",
    "U+10419", "U+1041A", "U+1041B", "U+1041C", "U+1041D", "U+1041E", "U+1041F", "U+10420",
    "U+10421", "U+10422", "U+10423", "U+10424", "U+10425", "U+10426", "U+10427", "U+10428",
    "U+10429", "U+1042A", "U+1042B", "U+1042C", "U+1042D", "U+1042E", "U+1042F", "U+10430",
    "U+10431", "U+10432", "U+10433", "U+10434", "U+10435", "U+10436", "U+10437", "U+10438",
    "U+10439", "U+1043A", "U+1043B", "U+1043C", "U+1043D", "U+1043E", "U+1043F", "U+10440",
    "U+10441", "U+10442", "U+10443", "U+10444", "U+10445", "U+10446", "U+10447", "U+10448",
    "U+10449", "U+1044A", "U+1044B", "U+1044C", "U+1044D", "U+1044E", "U+1044F", "U+104B0",
    "U+104B1", "U+104B2", "U+104B3", "U+104B4", "U+104B5", "U+104B6", "U+104B7", "U+104B8",
    "U+104B9", "U+104BA", "U+104BB", "U+104BC", "U+104BD", "U+104BE", "U+104BF", "U+104C0",
    "U+104C1", "U+104C2", "U+104C3", "U+104C4", "U+104C5", "U+104C6", "U+104C7", "U+104C8",
    "U+104C9", "U+104CA", "U+104CB", "U+104CC", "U+104CD", "U+104CE", "U+104CF", "U+104D0",
    "U+104D1", "U+104D2", "U+104D3", "U+104D8", "U+104D9", "U+104DA", "U+104DB", "U+104DC",
    "U+104DD", "U+104DE", "U+104DF", "U+104E0", "U+104E1", "U+104E2", "U+104E3", "U+104E4",
    "U+104E5", "U+104E6", "U+104E7", "U+104E8", "U+104E9", "U+104EA", "U+104EB", "U+104EC",
    "U+104ED", "U+104EE", "U+104EF", "U+104F0", "U+104F1", "U+104F2", "U+104F3", "U+104F4",
    "U+104F5", "U+104F6", "U+104F7", "U+104F8", "U+104F9", "U+104FA", "U+104FB", "U+10570",
    "U+10571", "U+10572", "U+10573", "U+10574", "U+10575", "U+10576", "U+10577", "U+10578",
    "U+10579", "U+1057A", "U+1057C", "U+1057D", "U+1057E", "U+1057F", "U+10580", "U+10581",
    "U+10582", "U+10583", "U+10584", "U+10585", "U+10586", "U+10587", "U+10588", "U+10589",
    "U+1058A", "U+1058C", "U+1058D", "U+1058E", "U+1058F", "U+10590", "U+10591", "U+10592",
    "U+10594", "U+10595", "U+10597", "U+10598", "U+10599", "U+1059A", "U+1059B", "U+1059C",
    "U+1059D", "U+1059E", "U+1059F", "U+105A0", "U+105A1", "U+105A3", "U+105A4", "U+105A5",
    "U+105A6", "U+105A7", "U+105A8", "U+105A9", "U+105AA", "U+105AB", "U+105AC", "U+105AD",
    "U+105AE", "U+105AF", "U+105B0", "U+105B1", "U+105B3", "U+105B4", "U+105B5", "U+105B6",
    "U+105B7", "U+105B8", "U+105B9", "U+105BB", "U+105BC", "U+10C80", "U+10C81", "U+10C82",
    "U+10C83", "U+10C84", "U+10C85", "U+10C86", "U+10C87", "U+10C88", "U+10C89", "U+10C8A",
    "U+10C8B", "U+10C8C", "U+10C8D", "U+10C8E", "U+10C8F", "U+10C90", "U+10C91", "U+10C92",
    "U+10C93", "U+10C94", "U+10C95", "U+10C96", "U+10C97", "U+10C98", "U+10C99", "U+10C9A",
    "U+10C9B", "U+10C9C", "U+10C9D", "U+10C9E", "U+10C9F", "U+10CA0", "U+10CA1", "U+10CA2",
    "U+10CA3", "U+10CA4", "U+10CA5", "U+10CA6", "U+10CA7", "U+10CA8", "U+10CA9", "U+10CAA",
    "U+10CAB", "U+10CAC", "U+10CAD", "U+10CAE", "U+10CAF", "U+10CB0", "U+10CB1", "U+10CB2",
    "U+10CC0", "U+10CC1", "U+10CC2", "U+10CC3", "U+10CC4", "U+10CC5", "U+10CC6", "U+10CC7",
    "U+10CC8", "U+10CC9", "U+10CCA", "U+10CCB", "U+10CCC", "U+10CCD", "U+10CCE", "U+10CCF",
    "U+10CD0", "U+10CD1", "U+10CD2", "U+10CD3", "U+10CD4", "U+10CD5", "U+10CD6", "U+10CD7",
    "U+10CD8", "U+10CD9", "U+10CDA", "U+10CDB", "U+10CDC", "U+10CDD", "U+10CDE", "U+10CDF",
    "U+10CE0", "U+10CE1", "U+10CE2", "U+10CE3", "U+10CE4", "U+10CE5", "U+10CE6", "U+10CE7",
    "U+10CE8", "U+10CE9", "U+10CEA", "U+10CEB", "U+10CEC", "U+10CED", "U+10CEE", "U+10CEF",
    "U+10CF0", "U+10CF1", "U+10CF2", "U+118A0", "U+118A1", "U+118A2", "U+118A3", "U+118A4",
    "U+118A5", "U+118A6", "U+118A7", "U+118A8", "U+118A9", "U+118AA", "U+118AB", "U+118AC",
    "U+118AD", "U+118AE", "U+118AF", "U+118B0", "U+118B1", "U+118B2", "U+118B3", "U+118B4",
    "U+118B5", "U+118B6", "U+118B7", "U+118B8", "U+118B9", "U+118BA", "U+118BB", "U+118BC",
    "U+118BD", "U+118BE", "U+118BF", "U+118C0", "U+118C1", "U+118C2", "U+118C3", "U+118C4",
    "U+118C5", "U+118C6", "U+118C7", "U+118C8", "U+118C9", "U+118CA", "U+118CB", "U+118CC",
    "U+118CD", "U+118CE", "U+118CF", "U+118D0", "U+118D1", "U+118D2", "U+118D3", "U+118D4",
    "U+118D5", "U+118D6", "U+118D7", "U+118D8", "U+118D9", "U+118DA", "U+118DB", "U+118DC",
    "U+118DD", "U+118DE", "U+118DF", "U+16E40", "U+16E41", "U+16E42", "U+16E43", "U+16E44",
    "U+16E45", "U+16E46", "U+16E47", "U+16E48", "U+16E49", "U+16E4A", "U+16E4B", "U+16E4C",
    "U+16E4D", "U+16E4E", "U+16E4F", "U+16E50", "U+16E51", "U+16E52", "U+16E53", "U+16E54",
    "U+16E55", "U+16E56", "U+16E57", "U+16E58", "U+16E59", "U+16E5A", "U+16E5B", "U+16E5C",
    "U+16E5D", "U+16E5E", "U+16E5F", "U+16E60", "U+16E61", "U+16E62", "U+16E63", "U+16E64",
    "U+16E65", "U+16E66", "U+16E67", "U+16E68", "U+16E69", "U+16E6A", "U+16E6B", "U+16E6C",
    "U+16E6D", "U+16E6E", "U+16E6F", "U+16E70", "U+16E71", "U+16E72", "U+16E73", "U+16E74",
    "U+16E75", "U+16E76", "U+16E77", "U+16E78", "U+16E79", "U+16E7A", "U+16E7B", "U+16E7C",
    "U+16E7D", "U+16E7E", "U+16E7F", "U+1D400", "U+1D401", "U+1D402", "U+1D403", "U+1D404",
    "U+1D405", "U+1D406", "U+1D407", "U+1D408", "U+1D409", "U+1D40A", "U+1D40B", "U+1D40C",
    "U+1D40D", "U+1D40E", "U+1D40F", "U+1D410", "U+1D411", "U+1D412", "U+1D413", "U+1D414",
    "U+1D415", "U+1D416", "U+1D417", "U+1D418", "U+1D419", "U+1D41A", "U+1D41B", "U+1D41C",
    "U+1D41D", "U+1D41E", "U+1D41F", "U+1D420", "U+1D421", "U+1D422", "U+1D423", "U+1D424",
    "U+1D425", "U+1D426", "U+1D427", "U+1D428", "U+1D429", "U+1D42A", "U+1D42B", "U+1D42C",
    "U+1D42D", "U+1D42E", "U+1D42F", "U+1D430", "U+1D431", "U+1D432", "U+1D433", "U+1D434",
    "U+1D435", "U+1D436", "U+1D437", "U+1D438", "U+1D439", "U+1D43A", "U+1D43B", "U+1D43C",
    "U+1D43D", "U+1D43E", "U+1D43F", "U+1D440", "U+1D441", "U+1D442", "U+1D443", "U+1D444",
    "U+1D445", "U+1D446", "U+1D447", "U+1D448", "U+1D449", "U+1D44A", "U+1D44B", "U+1D44C",
    "U+1D44D", "U+1D44E", "U+1D44F", "U+1D450", "U+1D451", "U+1D452", "U+1D453", "U+1D454",
    "U+1D456", "U+1D457", "U+1D458", "U+1D459", "U+1D45A", "U+1D45B", "U+1D45C", "U+1D45D",
    "U+1D45E", "U+1D45F", "U+1D460", "U+1D461", "U+1D462", "U+1D463", "U+1D464", "U+1D465",
    "U+1D466", "U+1D467", "U+1D468", "U+1D469", "U+1D46A", "U+1D46B", "U+1D46C", "U+1D46D",
    "U+1D46E", "U+1D46F", "U+1D470", "U+1D471", "U+1D472", "U+1D473", "U+1D474", "U+1D475",
    "U+1D476", "U+1D477", "U+1D478", "U+1D479", "U+1D47A", "U+1D47B", "U+1D47C", "U+1D47D",
    "U+1D47E", "U+1D47F", "U+1D480", "U+1D481", "U+1D482", "U+1D483", "U+1D484", "U+1D485",
    "U+1D486", "U+1D487", "U+1D488", "U+1D489", "U+1D48A", "U+1D48B", "U+1D48C", "U+1D48D",
    "U+1D48E", "U+1D48F", "U+1D490", "U+1D491", "U+1D492", "U+1D493", "U+1D494", "U+1D495",
    "U+1D496", "U+1D497", "U+1D498", "U+1D499", "U+1D49A", "U+1D49B", "U+1D49C", "U+1D49E",
    "U+1D49F", "U+1D4A2", "U+1D4A5", "U+1D4A6", "U+1D4A9", "U+1D4AA", "U+1D4AB", "U+1D4AC",
    "U+1D4AE", "U+1D4AF", "U+1D4B0", "U+1D4B1", "U+1D4B2", "U+1D4B3", "U+1D4B4", "U+1D4B5",
    "U+1D4B6", "U+1D4B7", "U+1D4B8", "U+1D4B9", "U+1D4BB", "U+1D4BD", "U+1D4BE", "U+1D4BF",
    "U+1D4C0", "U+1D4C1", "U+1D4C2", "U+1D4C3", "U+1D4C5", "U+1D4C6", "U+1D4C7", "U+1D4C8",
    "U+1D4C9", "U+1D4CA", "U+1D4CB", "U+1D4CC", "U+1D4CD", "U+1D4CE", "U+1D4CF", "U+1D4D0",
    "U+1D4D1", "U+1D4D2", "U+1D4D3", "U+1D4D4", "U+1D4D5", "U+1D4D6", "U+1D4D7", "U+1D4D8",
    "U+1D4D9", "U+1D4DA", "U+1D4DB", "U+1D4DC", "U+1D4DD", "U+1D4DE", "U+1D4DF", "U+1D4E0",
    "U+1D4E1", "U+1D4E2", "U+1D4E3", "U+1D4E4", "U+1D4E5", "U+1D4E6", "U+1D4E7", "U+1D4E8",
    "U+1D4E9", "U+1D4EA", "U+1D4EB", "U+1D4EC", "U+1D4ED", "U+1D4EE", "U+1D4EF", "U+1D4F0",
    "U+1D4F1", "U+1D4F2", "U+1D4F3", "U+1D4F4", "U+1D4F5", "U+1D4F6", "U+1D4F7", "U+1D4F8",
    "U+1D4F9", "U+1D4FA", "U+1D4FB", "U+1D4FC", "U+1D4FD", "U+1D4FE", "U+1D4FF", "U+1D500",
    "U+1D501", "U+1D502", "U+1D503", "U+1D504", "U+1D505", "U+1D507", "U+1D508", "U+1D509",
    "U+1D50A", "U+1D50D", "U+1D50E", "U+1D50F", "U+1D510", "U+1D511", "U+1D512", "U+1D513",
    "U+1D514", "U+1D516", "U+1D517", "U+1D518", "U+1D519", "U+1D51A", "U+1D51B", "U+1D51C",
    "U+1D51E", "U+1D51F", "U+1D520", "U+1D521", "U+1D522", "U+1D523", "U+1D524", "U+1D525",
    "U+1D526", "U+1D527", "U+1D528", "U+1D529", "U+1D52A", "U+1D52B", "U+1D52C", "U+1D52D",
    "U+1D52E", "U+1D52F", "U+1D530", "U+1D531", "U+1D532", "U+1D533", "U+1D534", "U+1D535",
    "U+1D536", "U+1D537", "U+1D538", "U+1D539", "U+1D53B", "U+1D53C", "U+1D53D", "U+1D53E",
    "U+1D540", "U+1D541", "U+1D542", "U+1D543", "U+1D544", "U+1D546", "U+1D54A", "U+1D54B",
    "U+1D54C", "U+1D54D", "U+1D54E", "U+1D54F", "U+1D550", "U+1D552", "U+1D553", "U+1D554",
    "U+1D555", "U+1D556", "U+1D557", "U+1D558", "U+1D559", "U+1D55A", "U+1D55B", "U+1D55C",
    "U+1D55D", "U+1D55E", "U+1D55F", "U+1D560", "U+1D561", "U+1D562", "U+1D563", "U+1D564",
    "U+1D565", "U+1D566", "U+1D567", "U+1D568", "U+1D569", "U+1D56A", "U+1D56B", "U+1D56C",
    "U+1D56D", "U+1D56E", "U+1D56F", "U+1D570", "U+1D571", "U+1D572", "U+1D573", "U+1D574",
    "U+1D575", "U+1D576", "U+1D577", "U+1D578", "U+1D579", "U+1D57A", "U+1D57B", "U+1D57C",
    "U+1D57D", "U+1D57E", "U+1D57F", "U+1D580", "U+1D581", "U+1D582", "U+1D583", "U+1D584",
    "U+1D585", "U+1D586", "U+1D587", "U+1D588", "U+1D589", "U+1D58A", "U+1D58B", "U+1D58C",
    "U+1D58D", "U+1D58E", "U+1D58F", "U+1D590", "U+1D591", "U+1D592", "U+1D593", "U+1D594",
    "U+1D595", "U+1D596", "U+1D597", "U+1D598", "U+1D599", "U+1D59A", "U+1D59B", "U+1D59C",
    "U+1D59D", "U+1D59E", "U+1D59F", "U+1D5A0", "U+1D5A1", "U+1D5A2", "U+1D5A3", "U+1D5A4",
    "U+1D5A5", "U+1D5A6", "U+1D5A7", "U+1D5A8", "U+1D5A9", "U+1D5AA", "U+1D5AB", "U+1D5AC",
    "U+1D5AD", "U+1D5AE", "U+1D5AF", "U+1D5B0", "U+1D5B1", "U+1D5B2", "U+1D5B3", "U+1D5B4",
    "U+1D5B5", "U+1D5B6", "U+1D5B7", "U+1D5B8", "U+1D5B9", "U+1D5BA", "U+1D5BB", "U+1D5BC",
    "U+1D5BD", "U+1D5BE", "U+1D5BF", "U+1D5C0", "U+1D5C1", "U+1D5C2", "U+1D5C3", "U+1D5C4",
    "U+1D5C5", "U+1D5C6", "U+1D5C7", "U+1D5C8", "U+1D5C9", "U+1D5CA", "U+1D5CB", "U+1D5CC",
    "U+1D5CD", "U+1D5CE", "U+1D5CF", "U+1D5D0", "U+1D5D1", "U+1D5D2", "U+1D5D3", "U+1D5D4",
    "U+1D5D5", "U+1D5D6", "U+1D5D7", "U+1D5D8", "U+1D5D9", "U+1D5DA", "U+1D5DB", "U+1D5DC",
    "U+1D5DD", "U+1D5DE", "U+1D5DF", "U+1D5E0", "U+1D5E1", "U+1D5E2", "U+1D5E3", "U+1D5E4",
    "U+1D5E5", "U+1D5E6", "U+1D5E7", "U+1D5E8", "U+1D5E9", "U+1D5EA", "U+1D5EB", "U+1D5EC",
    "U+1D5ED", "U+1D5EE", "U+1D5EF", "U+1D5F0", "U+1D5F1", "U+1D5F2", "U+1D5F3", "U+1D5F4",
    "U+1D5F5", "U+1D5F6", "U+1D5F7", "U+1D5F8", "U+1D5F9", "U+1D5FA", "U+1D5FB", "U+1D5FC",
    "U+1D5FD", "U+1D5FE", "U+1D5FF", "U+1D600", "U+1D601", "U+1D602", "U+1D603", "U+1D604",
    "U+1D605", "U+1D606", "U+1D607", "U+1D608", "U+1D609", "U+1D60A", "U+1D60B", "U+1D60C",
    "U+1D60D", "U+1D60E", "U+1D60F", "U+1D610", "U+1D611", "U+1D612", "U+1D613", "U+1D614",
    "U+1D615", "U+1D616", "U+1D617", "U+1D618", "U+1D619", "U+1D61A", "U+1D61B", "U+1D61C",
    "U+1D61D", "U+1D61E", "U+1D61F", "U+1D620", "U+1D621", "U+1D622", "U+1D623", "U+1D624",
    "U+1D625", "U+1D626", "U+1D627", "U+1D628", "U+1D629", "U+1D62A", "U+1D62B", "U+1D62C",
    "U+1D62D", "U+1D62E", "U+1D62F", "U+1D630", "U+1D631", "U+1D632", "U+1D633", "U+1D634",
    "U+1D635", "U+1D636", "U+1D637", "U+1D638", "U+1D639", "U+1D63A", "U+1D63B", "U+1D63C",
    "U+1D63D", "U+1D63E", "U+1D63F", "U+1D640", "U+1D641", "U+1D642", "U+1D643", "U+1D644",
    "U+1D645", "U+1D646", "U+1D647", "U+1D648", "U+1D649", "U+1D64A", "U+1D64B", "U+1D64C",
    "U+1D64D", "U+1D64E", "U+1D64F", "U+1D650", "U+1D651", "U+1D652", "U+1D653", "U+1D654",
    "U+1D655", "U+1D656", "U+1D657", "U+1D658", "U+1D659", "U+1D65A", "U+1D65B", "U+1D65C",
    "U+1D65D", "U+1D65E", "U+1D65F", "U+1D660", "U+1D661", "U+1D662", "U+1D663", "U+1D664",
    "U+1D665", "U+1D666", "U+1D667", "U+1D668", "U+1D669", "U+1D66A", "U+1D66B", "U+1D66C",
    "U+1D66D", "U+1D66E", "U+1D66F", "U+1D670", "U+1D671", "U+1D672", "U+1D673", "U+1D674",
    "U+1D675", "U+1D676", "U+1D677", "U+1D678", "U+1D679", "U+1D67A", "U+1D67B", "U+1D67C",
    "U+1D67D", "U+1D67E", "U+1D67F", "U+1D680", "U+1D681", "U+1D682", "U+1D683", "U+1D684",
    "U+1D685", "U+1D686", "U+1D687", "U+1D688", "U+1D689", "U+1D68A", "U+1D68B", "U+1D68C",
    "U+1D68D", "U+1D68E", "U+1D68F", "U+1D690", "U+1D691", "U+1D692", "U+1D693", "U+1D694",
    "U+1D695", "U+1D696", "U+1D697", "U+1D698", "U+1D699", "U+1D69A", "U+1D69B", "U+1D69C",
    "U+1D69D", "U+1D69E", "U+1D69F", "U+1D6A0", "U+1D6A1", "U+1D6A2", "U+1D6A3", "U+1D6A4",
    "U+1D6A5", "U+1D6A8", "U+1D6A9", "U+1D6AA", "U+1D6AB", "U+1D6AC", "U+1D6AD", "U+1D6AE",
    "U+1D6AF", "U+1D6B0", "U+1D6B1", "U+1D6B2", "U+1D6B3", "U+1D6B4", "U+1D6B5", "U+1D6B6",
    "U+1D6B7", "U+1D6B8", "U+1D6B9", "U+1D6BA", "U+1D6BB", "U+1D6BC", "U+1D6BD", "U+1D6BE",
    "U+1D6BF", "U+1D6C0", "U+1D6C2", "U+1D6C3", "U+1D6C4", "U+1D6C5", "U+1D6C6", "U+1D6C7",
    "U+1D6C8", "U+1D6C9", "U+1D6CA", "U+1D6CB", "U+1D6CC", "U+1D6CD", "U+1D6CE", "U+1D6CF",
    "U+1D6D0", "U+1D6D1", "U+1D6D2", "U+1D6D3", "U+1D6D4", "U+1D6D5", "U+1D6D6", "U+1D6D7",
    "U+1D6D8", "U+1D6D9", "U+1D6DA", "U+1D6DC", "U+1D6DD", "U+1D6DE", "U+1D6DF", "U+1D6E0",
    "U+1D6E1", "U+1D6E2", "U+1D6E3", "U+1D6E4", "U+1D6E5", "U+1D6E6", "U+1D6E7", "U+1D6E8",
    "U+1D6E9", "U+1D6EA", "U+1D6EB", "U+1D6EC", "U+1D6ED", "U+1D6EE", "U+1D6EF", "U+1D6F0",
    "U+1D6F1", "U+1D6F2", "U+1D6F3", "U+1D6F4", "U+1D6F5", "U+1D6F6", "U+1D6F7", "U+1D6F8",
    "U+1D6F9", "U+1D6FA", "U+1D6FC", "U+1D6FD", "U+1D6FE", "U+1D6FF", "U+1D700", "U+1D701",
    "U+1D702", "U+1D703", "U+1D704", "U+1D705", "U+1D706", "U+1D707", "U+1D708", "U+1D709",
    "U+1D70A", "U+1D70B", "U+1D70C", "U+1D70D", "U+1D70E", "U+1D70F", "U+1D710", "U+1D711",
    "U+1D712", "U+1D713", "U+1D714", "U+1D716", "U+1D717", "U+1D718", "U+1D719", "U+1D71A",
    "U+1D71B", "U+1D71C", "U+1D71D", "U+1D71E", "U+1D71F", "U+1D720", "U+1D721", "U+1D722",
    "U+1D723", "U+1D724", "U+1D725", "U+1D726", "U+1D727", "U+1D728", "U+1D729", "U+1D72A",
    "U+1D72B", "U+1D72C", "U+1D72D", "U+1D72E", "U+1D72F", "U+1D730", "U+1D731", "U+1D732",
    "U+1D733", "U+1D734", "U+1D736", "U+1D737", "U+1D738", "U+1D739", "U+1D73A", "U+1D73B",
    "U+1D73C", "U+1D73D", "U+1D73E", "U+1D73F", "U+1D740", "U+1D741", "U+1D742", "U+1D743",
    "U+1D744", "U+1D745", "U+1D746", "U+1D747", "U+1D748", "U+1D749", "U+1D74A", "U+1D74B",
    "U+1D74C", "U+1D74D", "U+1D74E", "U+1D750", "U+1D751", "U+1D752", "U+1D753", "U+1D754",
    "U+1D755", "U+1D756", "U+1D757", "U+1D758", "U+1D759", "U+1D75A", "U+1D75B", "U+1D75C",
    "U+1D75D", "U+1D75E", "U+1D75F", "U+1D760", "U+1D761", "U+1D762", "U+1D763", "U+1D764",
    "U+1D765", "U+1D766", "U+1D767", "U+1D768", "U+1D769", "U+1D76A", "U+1D76B", "U+1D76C",
    "U+1D76D", "U+1D76E", "U+1D770", "U+1D771", "U+1D772", "U+1D773", "U+1D774", "U+1D775",
    "U+1D776", "U+1D777", "U+1D778", "U+1D779", "U+1D77A", "U+1D77B", "U+1D77C", "U+1D77D",
    "U+1D77E", "U+1D77F", "U+1D780", "U+1D781", "U+1D782", "U+1D783", "U+1D784", "U+1D785",
    "U+1D786", "U+1D787", "U+1D788", "U+1D78A", "U+1D78B", "U+1D78C", "U+1D78D", "U+1D78E",
    "U+1D78F", "U+1D790", "U+1D791", "U+1D792", "U+1D793", "U+1D794", "U+1D795", "U+1D796",
    "U+1D797", "U+1D798", "U+1D799", "U+1D79A", "U+1D79B", "U+1D79C", "U+1D79D", "U+1D79E",
    "U+1D79F", "U+1D7A0", "U+1D7A1", "U+1D7A2", "U+1D7A3", "U+1D7A4", "U+1D7A5", "U+1D7A6",
    "U+1D7A7", "U+1D7A8", "U+1D7AA", "U+1D7AB", "U+1D7AC", "U+1D7AD", "U+1D7AE", "U+1D7AF",
    "U+1D7B0", "U+1D7B1", "U+1D7B2", "U+1D7B3", "U+1D7B4", "U+1D7B5", "U+1D7B6", "U+1D7B7",
    "U+1D7B8", "U+1D7B9", "U+1D7BA", "U+1D7BB", "U+1D7BC", "U+1D7BD", "U+1D7BE", "U+1D7BF",
    "U+1D7C0", "U+1D7C1", "U+1D7C2", "U+1D7C4", "U+1D7C5", "U+1D7C6", "U+1D7C7", "U+1D7C8",
    "U+1D7C9", "U+1D7CA", "U+1D7CB", "U+1DF00", "U+1DF01", "U+1DF02", "U+1DF03", "U+1DF04",
    "U+1DF05", "U+1DF06", "U+1DF07", "U+1DF08", "U+1DF09", "U+1DF0B", "U+1DF0C", "U+1DF0D",
    "U+1DF0E", "U+1DF0F", "U+1DF10", "U+1DF11", "U+1DF12", "U+1DF13", "U+1DF14", "U+1DF15",
    "U+1DF16", "U+1DF17", "U+1DF18", "U+1DF19", "U+1DF1A", "U+1DF1B", "U+1DF1C", "U+1DF1D",
    "U+1DF1E", "U+1E900", "U+1E901", "U+1E902", "U+1E903", "U+1E904", "U+1E905", "U+1E906",
    "U+1E907", "U+1E908", "U+1E909", "U+1E90A", "U+1E90B", "U+1E90C", "U+1E90D", "U+1E90E",
    "U+1E90F", "U+1E910", "U+1E911", "U+1E912", "U+1E913", "U+1E914", "U+1E915", "U+1E916",
    "U+1E917", "U+1E918", "U+1E919", "U+1E91A", "U+1E91B", "U+1E91C", "U+1E91D", "U+1E91E",
    "U+1E91F", "U+1E920", "U+1E921", "U+1E922", "U+1E923", "U+1E924", "U+1E925", "U+1E926",
    "U+1E927", "U+1E928", "U+1E929", "U+1E92A", "U+1E92B", "U+1E92C", "U+1E92D", "U+1E92E",
    "U+1E92F", "U+1E930", "U+1E931", "U+1E932", "U+1E933", "U+1E934", "U+1E935", "U+1E936",
    "U+1E937", "U+1E938", "U+1E939", "U+1E93A", "U+1E93B", "U+1E93C", "U+1E93D", "U+1E93E",
    "U+1E93F", "U+1E940", "U+1E941", "U+1E942", "U+1E943", "U+1F130", "U+1F131", "U+1F132",
    "U+1F133", "U+1F134", "U+1F135", "U+1F136", "U+1F137", "U+1F138", "U+1F139", "U+1F13A",
    "U+1F13B", "U+1F13C", "U+1F13D", "U+1F13E", "U+1F13F", "U+1F140", "U+1F141", "U+1F142",
    "U+1F143", "U+1F144", "U+1F145", "U+1F146", "U+1F147", "U+1F148", "U+1F149", "U+1F150",
    "U+1F151", "U+1F152", "U+1F153", "U+1F154", "U+1F155", "U+1F156", "U+1F157", "U+1F158",
    "U+1F159", "U+1F15A", "U+1F15B", "U+1F15C", "U+1F15D", "U+1F15E", "U+1F15F", "U+1F160",
    "U+1F161", "U+1F162", "U+1F163", "U+1F164", "U+1F165", "U+1F166", "U+1F167", "U+1F168",
    "U+1F169", "U+1F170", "U+1F171", "U+1F172", "U+1F173", "U+1F174", "U+1F175", "U+1F176",
    "U+1F177", "U+1F178", "U+1F179", "U+1F17A", "U+1F17B", "U+1F17C", "U+1F17D", "U+1F17E",
    "U+1F17F", "U+1F180", "U+1F181", "U+1F182", "U+1F183", "U+1F184", "U+1F185", "U+1F186",
    "U+1F187", "U+1F188", "U+1F189"
  }

\* the characters \d matches and int() reads: the digits 0 to 9 of one script after
\* those of another
Digits ==
  <<
    "0", "1", "2", "3", "4", "5", "6", "7", "8", "9",
    "U+0660", "U+0661", "U+0662", "U+0663", "U+0664", "U+0665", "U+0666", "U+0667", "U+0668", "U+0669",
    "U+06F0", "U+06F1", "U+06F2", "U+06F3", "U+06F4", "U+06F5", "U+06F6", "U+06F7", "U+06F8", "U+06F9",
    "U+07C0", "U+07C1", "U+07C2", "U+07C3", "U+07C4", "U+07C5", "U+07C6", "U+07C7", "U+07C8", "U+07C9",
    "U+0966", "U+0967", "U+0968", "U+0969", "U+096A", "U+096B", "U+096C", "U+096D", "U+096E", "U+096F",
    "U+09E6", "U+09E7", "U+09E8", "U+09E9", "U+09EA", "U+09EB", "U+09EC", "U+09ED", "U+09EE", "U+09EF",
    "U+0A66", "U+0A67", "U+0A68", "U+0A69", "U+0A6A", "U+0A6B", "U+0A6C", "U+0A6D", "U+0A6E", "U+0A6F",
    "U+0AE6", "U+0AE7", "U+0AE8", "U+0AE9", "U+0AEA", "U+0AEB", "U+0AEC", "U+0AED", "U+0AEE", "U+0AEF",
    "U+0B66", "U+0B67", "U+0B68", "U+0B69", "U+0B6A", "U+0B6B", "U+0B6C", "U+0B6D", "U+0B6E", "U+0B6F",
    "U+0BE6", "U+0BE7", "U+0BE8", "U+0BE9", "U+0BEA", "U+0BEB", "U+0BEC", "U+0BED", "U+0BEE", "U+0BEF",
    "U+0C66", "U+0C67", "U+0C68", "U+0C69", "U+0C6A", "U+0C6B", "U+0C6C", "U+0C6D", "U+0C6E", "U+0C6F",
    "U+0CE6", "U+0CE7", "U+0CE8", "U+0CE9", "U+0CEA", "U+0CEB", "U+0CEC", "U+0CED", "U+0CEE", "U+0CEF",
    "U+0D66", "U+0D67", "U+0D68", "U+0D69", "U+0D6A", "U+0D6B", "U+0D6C", "U+0D6D", "U+0D6E", "U+0D6F",
    "U+0DE6", "U+0DE7", "U+0DE8", "U+0DE9", "U+0DEA", "U+0DEB", "U+0DEC", "U+0DED", "U+0DEE", "U+0DEF",
    "U+0E50", "U+0E51", "U+0E52", "U+0E53", "U+0E54", "U+0E55", "U+0E56", "U+0E57", "U+0E58", "U+0E59",
    "U+0ED0", "U+0ED1", "U+0ED2", "U+0ED3", "U+0ED4", "U+0ED5", "U+0ED6", "U+0ED7", "U+0ED8", "U+0ED9",
    "U+0F20", "U+0F21", "U+0F22", "U+0F23", "U+0F24", "U+0F25", "U+0F26", "U+0F27", "U+0F28", "U+0F29",
    "U+1040", "U+1041", "U+1042", "U+1043", "U+1044", "U+1045", "U+1046", "U+1047", "U+1048", "U+1049",
    "U+1090", "U+1091", "U+1092", "U+1093", "U+1094", "U+1095", "U+1096", "U+1097", "U+1098", "U+1099",
    "U+17E0", "U+17E1", "U+17E2", "U+17E3", "U+17E4", "U+17E5", "U+17E6", "U+17E7", "U+17E8", "U+17E9",
    "U+1810", "U+1811", "U+1812", "U+1813", "U+1814", "U+1815", "U+1816", "U+1817", "U+1818", "U+1819",
    "U+1946", "U+1947", "U+1948", "U+1949", "U+194A", "U+194B", "U+194C", "U+194D", "U+194E", "U+194F",
    "U+19D0", "U+19D1", "U+19D2", "U+19D3", "U+19D4", "U+19D5", "U+19D6", "U+19D7", "U+19D8", "U+19D9",
    "U+1A80", "U+1A81", "U+1A82", "U+1A83", "U+1A84", "U+1A85", "U+1A86", "U+1A87", "U+1A88", "U+1A89",
    "U+1A90", "U+1A91", "U+1A92", "U+1A93", "U+1A94", "U+1A95", "U+1A96", "U+1A97", "U+1A98", "U+1A99",
    "U+1B50", "U+1B51", "U+1B52", "U+1B53", "U+1B54", "U+1B55", "U+1B56", "U+1B57", "U+1B58", "U+1B59",
    "U+1BB0", "U+1BB1", "U+1BB2", "U+1BB3", "U+1BB4", "U+1BB5", "U+1BB6", "U+1BB7", "U+1BB8", "U+1BB9",
    "U+1C40", "U+1C41", "U+1C42", "U+1C43", "U+1C44", "U+1C45", "U+1C46", "U+1C47", "U+1C48", "U+1C49",
    "U+1C50", "U+1C51", "U+1C52", "U+1C53", "U+1C54", "U+1C55", "U+1C56", "U+1C57", "U+1C58", "U+1C59",
    "U+A620", "U+A621", "U+A622", "U+A623", "U+A624", "U+A625", "U+A626", "U+A627", "U+A628", "U+A629",
    "U+A8D0", "U+A8D1", "U+A8D2", "U+A8D3", "U+A8D4", "U+A8D5", "U+A8D6", "U+A8D7", "U+A8D8", "U+A8D9",
    "U+A900", "U+A901", "U+A902", "U+A903", "U+A904", "U+A905", "U+A906", "U+A907", "U+A908", "U+A909",
    "U+A9D0", "U+A9D1", "U+A9D2", "U+A9D3", "U+A9D4", "U+A9D5", "U+A9D6", "U+A9D7", "U+A9D8", "U+A9D9",
    "U+A9F0", "U+A9F1", "U+A9F2", "U+A9F3", "U+A9F4", "U+A9F5", "U+A9F6", "U+A9F7", "U+A9F8", "U+A9F9",
    "U+AA50", "U+AA51", "U+AA52", "U+AA53", "U+AA54", "U+AA55", "U+AA56", "U+AA57", "U+AA58", "U+AA59",
    "U+ABF0", "U+ABF1", "U+ABF2", "U+ABF3", "U+ABF4", "U+ABF5", "U+ABF6", "U+ABF7", "U+ABF8", "U+ABF9",
    "U+FF10", "U+FF11", "U+FF12", "U+FF13", "U+FF14", "U+FF15", "U+FF16", "U+FF17", "U+FF18", "U+FF19",
    "U+104A0", "U+104A1", "U+104A2", "U+104A3", "U+104A4", "U+104A5", "U+104A6", "U+104A7", "U+104A8", "U+104A9",
    "U+10D30", "U+10D31", "U+10D32", "U+10D33", "U+10D34", "U+10D35", "U+10D36", "U+10D37", "U+10D38", "U+10D39",
    "U+11066", "U+11067", "U+11068", "U+11069", "U+1106A", "U+1106B", "U+1106C", "U+1106D", "U+1106E", "U+1106F",
    "U+110F0", "U+110F1", "U+110F2", "U+110F3", "U+110F4", "U+110F5", "U+110F6", "U+110F7", "U+110F8", "U+110F9",
    "U+11136", "U+11137", "U+11138", "U+11139", "U+1113A", "U+1113B", "U+1113C", "U+1113D", "U+1113E", "U+1113F",
    "U+111D0", "U+111D1", "U+111D2", "U+111D3", "U+111D4", "U+111D5", "U+111D6", "U+111D7", "U+111D8", "U+111D9",
    "U+112F0", "U+112F1", "U+112F2", "U+112F3", "U+112F4", "U+112F5", "U+112F6", "U+112F7", "U+112F8", "U+112F9",
    "U+11450", "U+11451", "U+11452", "U+11453", "U+11454", "U+11455", "U+11456", "U+11457", "U+11458", "U+11459",
    "U+114D0", "U+114D1", "U+114D2", "U+114D3", "U+114D4", "U+114D5", "U+114D6", "U+114D7", "U+114D8", "U+114D9",
    "U+11650", "U+11651", "U+11652", "U+11653", "U+11654", "U+11655", "U+11656", "U+11657", "U+11658", "U+11659",
    "U+116C0", "U+116C1", "U+116C2", "U+116C3", "U+116C4", "U+116C5", "U+116C6", "U+116C7", "U+116C8", "U+116C9",
    "U+11730", "U+11731", "U+11732", "U+11733", "U+11734", "U+11735", "U+11736", "U+11737", "U+11738", "U+11739",
    "U+118E0", "U+118E1", "U+118E2", "U+118E3", "U+118E4", "U+118E5", "U+118E6", "U+118E7", "U+118E8", "U+118E9",
    "U+11950", "U+11951", "U+11952", "U+11953", "U+11954", "U+11955", "U+11956", "U+11957", "U+11958", "U+11959",
    "U+11C50", "U+11C51", "U+11C52", "U+11C53", "U+11C54", "U+11C55", "U+11C56", "U+11C57", "U+11C58", "U+11C59",
    "U+11D50", "U+11D51", "U+11D52", "U+11D53", "U+11D54", "U+11D55", "U+11D56", "U+11D57", "U+11D58", "U+11D59",
    "U+11DA0", "U+11DA1", "U+11DA2", "U+11DA3", "U+11DA4", "U+11DA5", "U+11DA6", "U+11DA7", "U+11DA8", "U+11DA9",
    "U+16A60", "U+16A61", "U+16A62", "U+16A63", "U+16A64", "U+16A65", "U+16A66", "U+16A67", "U+16A68", "U+16A69",
    "U+16AC0", "U+16AC1", "U+16AC2", "U+16AC3", "U+16AC4", "U+16AC5", "U+16AC6", "U+16AC7", "U+16AC8", "U+16AC9",
    "U+16B50", "U+16B51", "U+16B52", "U+16B53", "U+16B54", "U+16B55", "U+16B56", "U+16B57", "U+16B58", "U+16B59",
    "U+1D7CE", "U+1D7CF", "U+1D7D0", "U+1D7D1", "U+1D7D2", "U+1D7D3", "U+1D7D4", "U+1D7D5", "U+1D7D6", "U+1D7D7",
    "U+1D7D8", "U+1D7D9", "U+1D7DA", "U+1D7DB", "U+1D7DC", "U+1D7DD", "U+1D7DE", "U+1D7DF", "U+1D7E0", "U+1D7E1",
    "U+1D7E2", "U+1D7E3", "U+1D7E4", "U+1D7E5", "U+1D7E6", "U+1D7E7", "U+1D7E8", "U+1D7E9", "U+1D7EA", "U+1D7EB",
    "U+1D7EC", "U+1D7ED", "U+1D7EE", "U+1D7EF", "U+1D7F0", "U+1D7F1", "U+1D7F2", "U+1D7F3", "U+1D7F4", "U+1D7F5",
    "U+1D7F6", "U+1D7F7", "U+1D7F8", "U+1D7F9", "U+1D7FA", "U+1D7FB", "U+1D7FC", "U+1D7FD", "U+1D7FE", "U+1D7FF",
    "U+1E140", "U+1E141", "U+1E142", "U+1E143", "U+1E144", "U+1E145", "U+1E146", "U+1E147", "U+1E148", "U+1E149",
    "U+1E2F0", "U+1E2F1", "U+1E2F2", "U+1E2F3", "U+1E2F4", "U+1E2F5", "U+1E2F6", "U+1E2F7", "U+1E2F8", "U+1E2F9",
    "U+1E950", "U+1E951", "U+1E952", "U+1E953", "U+1E954", "U+1E955", "U+1E956", "U+1E957", "U+1E958", "U+1E959",
    "U+1FBF0", "U+1FBF1", "U+1FBF2", "U+1FBF3", "U+1FBF4", "U+1FBF5", "U+1FBF6", "U+1FBF7", "U+1FBF8", "U+1FBF9"
  >>

\* the characters \s matches and str.strip() removes
Whitespace ==
  {
    "\t", "\n", "U+000B", "\f", "\r", "U+001C", "U+001D", "U+001E", "U+001F", " ", "U+0085",
    "U+00A0", "U+1680", "U+2000", "U+2001", "U+2002", "U+2003", "U+2004", "U+2005", "U+2006",
    "U+2007", "U+2008", "U+2009", "U+200A", "U+2028", "U+2029", "U+202F", "U+205F", "U+3000"
  }

\* the surrogate code points U+D800..U+DFFF, which no UTF-8 text holds
Surrogates ==
  {
    "U+D800", "U+D801", "U+D802", "U+D803", "U+D804", "U+D805", "U+D806", "U+D807", "U+D808",
    "U+D809", "U+D80A", "U+D80B", "U+D80C", "U+D80D", "U+D80E", "U+D80F", "U+D810", "U+D811",
    "U+D812", "U+D813", "U+D814", "U+D815", "U+D816", "U+D817", "U+D818", "U+D819", "U+D81A",
    "U+D81B", "U+D81C", "U+D81D", "U+D81E", "U+D81F", "U+D820", "U+D821", "U+D822", "U+D823",
    "U+D824", "U+D825", "U+D826", "U+D827", "U+D828", "U+D829", "U+D82A", "U+D82B", "U+D82C",
    "U+D82D", "U+D82E", "U+D82F", "U+D830", "U+D831", "U+D832", "U+D833", "U+D834", "U+D835",
    "U+D836", "U+D837", "U+D838", "U+D839", "U+D83A", "U+D83B", "U+D83C", "U+D83D", "U+D83E",
    "U+D83F", "U+D840", "U+D841", "U+D842", "U+D843", "U+D844", "U+D845", "U+D846", "U+D847",
    "U+D848", "U+D849", "U+D84A", "U+D84B", "U+D84C", "U+D84D", "U+D84E", "U+D84F", "U+D850",
    "U+D851", "U+D852", "U+D853", "U+D854", "U+D855", "U+D856", "U+D857", "U+D858", "U+D859",
    "U+D85A", "U+D85B", "U+D85C", "U+D85D", "U+D85E", "U+D85F", "U+D860", "U+D861", "U+D862",
    "U+D863", "U+D864", "U+D865", "U+D866", "U+D867", "U+D868", "U+D869", "U+D86A", "U+D86B",
    "U+D86C", "U+D86D", "U+D86E", "U+D86F", "U+D870", "U+D871", "U+D872", "U+D873", "U+D874",
    "U+D875", "U+D876", "U+D877", "U+D878", "U+D879", "U+D87A", "U+D87B", "U+D87C", "U+D87D",
    "U+D87E", "U+D87F", "U+D880", "U+D881", "U+D882", "U+D883", "U+D884", "U+D885", "U+D886",
    "U+D887", "U+D888", "U+D889", "U+D88A", "U+D88B", "U+D88C", "U+D88D", "U+D88E", "U+D88F",
    "U+D890", "U+D891", "U+D892", "U+D893", "U+D894", "U+D895", "U+D896", "U+D897", "U+D898",
    "U+D899", "U+D89A", "U+D89B", "U+D89C", "U+D89D", "U+D89E", "U+D89F", "U+D8A0", "U+D8A1",
    "U+D8A2", "U+D8A3", "U+D8A4", "U+D8A5", "U+D8A6", "U+D8A7", "U+D8A8", "U+D8A9", "U+D8AA",
    "U+D8AB", "U+D8AC", "U+D8AD", "U+D8AE", "U+D8AF", "U+D8B0", "U+D8B1", "U+D8B2", "U+D8B3",
    "U+D8B4", "U+D8B5", "U+D8B6", "U+D8B7", "U+D8B8", "U+D8B9", "U+D8BA", "U+D8BB", "U+D8BC",
    "U+D8BD", "U+D8BE", "U+D8BF", "U+D8C0", "U+D8C1", "U+D8C2", "U+D8C3", "U+D8C4", "U+D8C5",
    "U+D8C6", "U+D8C7", "U+D8C8", "U+D8C9", "U+D8CA", "U+D8CB", "U+D8CC", "U+D8CD", "U+D8CE",
    "U+D8CF", "U+D8D0", "U+D8D1", "U+D8D2", "U+D8D3", "U+D8D4", "U+D8D5", "U+D8D6", "U+D8D7",
    "U+D8D8", "U+D8D9", "U+D8DA", "U+D8DB", "U+D8DC", "U+D8DD", "U+D8DE", "U+D8DF", "U+D8E0",
    "U+D8E1", "U+D8E2", "U+D8E3", "U+D8E4", "U+D8E5", "U+D8E6", "U+D8E7", "U+D8E8", "U+D8E9",
    "U+D8EA", "U+D8EB", "U+D8EC", "U+D8ED", "U+D8EE", "U+D8EF", "U+D8F0", "U+D8F1", "U+D8F2",
    "U+D8F3", "U+D8F4", "U+D8F5", "U+D8F6", "U+D8F7", "U+D8F8", "U+D8F9", "U+D8FA", "U+D8FB",
    "U+D8FC", "U+D8FD", "U+D8FE", "U+D8FF", "U+D900", "U+D901", "U+D902", "U+D903", "U+D904",
    "U+D905", "U+D906", "U+D907", "U+D908", "U+D909", "U+D90A", "U+D90B", "U+D90C", "U+D90D",
    "U+D90E", "U+D90F", "U+D910", "U+D911", "U+D912", "U+D913", "U+D914", "U+D915", "U+D916",
    "U+D917", "U+D918", "U+D919", "U+D91A", "U+D91B", "U+D91C", "U+D91D", "U+D91E", "U+D91F",
    "U+D920", "U+D921", "U+D922", "U+D923", "U+D924", "U+D925", "U+D926", "U+D927", "U+D928",
    "U+D929", "U+D92A", "U+D92B", "U+D92C", "U+D92D", "U+D92E", "U+D92F", "U+D930", "U+D931",
    "U+D932", "U+D933", "U+D934", "U+D935", "U+D936", "U+D937", "U+D938", "U+D939", "U+D93A",
    "U+D93B", "U+D93C", "U+D93D", "U+D93E", "U+D93F", "U+D940", "U+D941", "U+D942", "U+D943",
    "U+D944", "U+D945", "U+D946", "U+D947", "U+D948", "U+D949", "U+D94A", "U+D94B", "U+D94C",
    "U+D94D", "U+D94E", "U+D94F", "U+D950", "U+D951", "U+D952", "U+D953", "U+D954", "U+D955",
    "U+D956", "U+D957", "U+D958", "U+D959", "U+D95A", "U+D95B", "U+D95C", "U+D95D", "U+D95E",
    "U+D95F", "U+D960", "U+D961", "U+D962", "U+D963", "U+D964", "U+D965", "U+D966", "U+D967",
    "U+D968", "U+D969", "U+D96A", "U+D96B", "U+D96C", "U+D96D", "U+D96E", "U+D96F", "U+D970",
    "U+D971", "U+D972", "U+D973", "U+D974", "U+D975", "U+D976", "U+D977", "U+D978", "U+D979",
    "U+D97A", "U+D97B", "U+D97C", "U+D97D", "U+D97E", "U+D97F", "U+D980", "U+D981", "U+D982",
    "U+D983", "U+D984", "U+D985", "U+D986", "U+D987", "U+D988", "U+D989", "U+D98A", "U+D98B",
    "U+D98C", "U+D98D", "U+D98E", "U+D98F", "U+D990", "U+D991", "U+D992", "U+D993", "U+D994",
    "U+D995", "U+D996", "U+D997", "U+D998", "U+D999", "U+D99A", "U+D99B", "U+D99C", "U+D99D",
    "U+D99E", "U+D99F", "U+D9A0", "U+D9A1", "U+D9A2", "U+D9A3", "U+D9A4", "U+D9A5", "U+D9A6",
    "U+D9A7", "U+D9A8", "U+D9A9", "U+D9AA", "U+D9AB", "U+D9AC", "U+D9AD", "U+D9AE", "U+D9AF",
    "U+D9B0", "U+D9B1", "U+D9B2", "U+D9B3", "U+D9B4", "U+D9B5", "U+D9B6", "U+D9B7", "U+D9B8",
    "U+D9B9", "U+D9BA", "U+D9BB", "U+D9BC", "U+D9BD", "U+D9BE", "U+D9BF", "U+D9C0", "U+D9C1",
    "U+D9C2", "U+D9C3", "U+D9C4", "U+D9C5", "U+D9C6", "U+D9C7", "U+D9C8", "U+D9C9", "U+D9CA",
    "U+D9CB", "U+D9CC", "U+D9CD", "U+D9CE", "U+D9CF", "U+D9D0", "U+D9D1", "U+D9D2", "U+D9D3",
    "U+D9D4", "U+D9D5", "U+D9D6", "U+D9D7", "U+D9D8", "U+D9D9", "U+D9DA", "U+D9DB", "U+D9DC",
    "U+D9DD", "U+D9DE", "U+D9DF", "U+D9E0", "U+D9E1", "U+D9E2", "U+D9E3", "U+D9E4", "U+D9E5",
    "U+D9E6", "U+D9E7", "U+D9E8", "U+D9E9", "U+D9EA", "U+D9EB", "U+D9EC", "U+D9ED", "U+D9EE",
    "U+D9EF", "U+D9F0", "U+D9F1", "U+D9F2", "U+D9F3", "U+D9F4", "U+D9F5", "U+D9F6", "U+D9F7",
    "U+D9F8", "U+D9F9", "U+D9FA", "U+D9FB", "U+D9FC", "U+D9FD", "U+D9FE", "U+D9FF", "U+DA00",
    "U+DA01", "U+DA02", "U+DA03", "U+DA04", "U+DA05", "U+DA06", "U+DA07", "U+DA08", "U+DA09",
    "U+DA0A", "U+DA0B", "U+DA0C", "U+DA0D", "U+DA0E", "U+DA0F", "U+DA10", "U+DA11", "U+DA12",
    "U+DA13", "U+DA14", "U+DA15", "U+DA16", "U+DA17", "U+DA18", "U+DA19", "U+DA1A", "U+DA1B",
    "U+DA1C", "U+DA1D", "U+DA1E", "U+DA1F", "U+DA20", "U+DA21", "U+DA22", "U+DA23", "U+DA24",
    "U+DA25", "U+DA26", "U+DA27", "U+DA28", "U+DA29", "U+DA2A", "U+DA2B", "U+DA2C", "U+DA2D",
    "U+DA2E", "U+DA2F", "U+DA30", "U+DA31", "U+DA32", "U+DA33", "U+DA34", "U+DA35", "U+DA36",
    "U+DA37", "U+DA38", "U+DA39", "U+DA3A", "U+DA3B", "U+DA3C", "U+DA3D", "U+DA3E", "U+DA3F",
    "U+DA40", "U+DA41", "U+DA42", "U+DA43", "U+DA44", "U+DA45", "U+DA46", "U+DA47", "U+DA48",
    "U+DA49", "U+DA4A", "U+DA4B", "U+DA4C", "U+DA4D", "U+DA4E", "U+DA4F", "U+DA50", "U+DA51",
    "U+DA52", "U+DA53", "U+DA54", "U+DA55", "U+DA56", "U+DA57", "U+DA58", "U+DA59", "U+DA5A",
    "U+DA5B", "U+DA5C", "U+DA5D", "U+DA5E", "U+DA5F", "U+DA60", "U+DA61", "U+DA62", "U+DA63",
    "U+DA64", "U+DA65", "U+DA66", "U+DA67", "U+DA68", "U+DA69", "U+DA6A", "U+DA6B", "U+DA6C",
    "U+DA6D", "U+DA6E", "U+DA6F", "U+DA70", "U+DA71", "U+DA72", "U+DA73", "U+DA74", "U+DA75",
    "U+DA76", "U+DA77", "U+DA78", "U+DA79", "U+DA7A", "U+DA7B", "U+DA7C", "U+DA7D", "U+DA7E",
    "U+DA7F", "U+DA80", "U+DA81", "U+DA82", "U+DA83", "U+DA84", "U+DA85", "U+DA86", "U+DA87",
    "U+DA88", "U+DA89", "U+DA8A", "U+DA8B", "U+DA8C", "U+DA8D", "U+DA8E", "U+DA8F", "U+DA90",
    "U+DA91", "U+DA92", "U+DA93", "U+DA94", "U+DA95", "U+DA96", "U+DA97", "U+DA98", "U+DA99",
    "U+DA9A", "U+DA9B", "U+DA9C", "U+DA9D", "U+DA9E", "U+DA9F", "U+DAA0", "U+DAA1", "U+DAA2",
    "U+DAA3", "U+DAA4", "U+DAA5", "U+DAA6", "U+DAA7", "U+DAA8", "U+DAA9", "U+DAAA", "U+DAAB",
    "U+DAAC", "U+DAAD", "U+DAAE", "U+DAAF", "U+DAB0", "U+DAB1", "U+DAB2", "U+DAB3", "U+DAB4",
    "U+DAB5", "U+DAB6", "U+DAB7", "U+DAB8", "U+DAB9", "U+DABA", "U+DABB", "U+DABC", "U+DABD",
    "U+DABE", "U+DABF", "U+DAC0", "U+DAC1", "U+DAC2", "U+DAC3", "U+DAC4", "U+DAC5", "U+DAC6",
    "U+DAC7", "U+DAC8", "U+DAC9", "U+DACA", "U+DACB", "U+DACC", "U+DACD", "U+DACE", "U+DACF",
    "U+DAD0", "U+DAD1", "U+DAD2", "U+DAD3", "U+DAD4", "U+DAD5", "U+DAD6", "U+DAD7", "U+DAD8",
    "U+DAD9", "U+DADA", "U+DADB", "U+DADC", "U+DADD", "U+DADE", "U+DADF", "U+DAE0", "U+DAE1",
    "U+DAE2", "U+DAE3", "U+DAE4", "U+DAE5", "U+DAE6", "U+DAE7", "U+DAE8", "U+DAE9", "U+DAEA",
    "U+DAEB", "U+DAEC", "U+DAED", "U+DAEE", "U+DAEF", "U+DAF0", "U+DAF1", "U+DAF2", "U+DAF3",
    "U+DAF4", "U+DAF5", "U+DAF6", "U+DAF7", "U+DAF8", "U+DAF9", "U+DAFA", "U+DAFB", "U+DAFC",
    "U+DAFD", "U+DAFE", "U+DAFF", "U+DB00", "U+DB01", "U+DB02", "U+DB03", "U+DB04", "U+DB05",
    "U+DB06", "U+DB07", "U+DB08", "U+DB09", "U+DB0A", "U+DB0B", "U+DB0C", "U+DB0D", "U+DB0E",
    "U+DB0F", "U+DB10", "U+DB11", "U+DB12", "U+DB13", "U+DB14", "U+DB15", "U+DB16", "U+DB17",
    "U+DB18", "U+DB19", "U+DB1A", "U+DB1B", "U+DB1C", "U+DB1D", "U+DB1E", "U+DB1F", "U+DB20",
    "U+DB21", "U+DB22", "U+DB23", "U+DB24", "U+DB25", "U+DB26", "U+DB27", "U+DB28", "U+DB29",
    "U+DB2A", "U+DB2B", "U+DB2C", "U+DB2D", "U+DB2E", "U+DB2F", "U+DB30", "U+DB31", "U+DB32",
    "U+DB33", "U+DB34", "U+DB35", "U+DB36", "U+DB37", "U+DB38", "U+DB39", "U+DB3A", "U+DB3B",
    "U+DB3C", "U+DB3D", "U+DB3E", "U+DB3F", "U+DB40", "U+DB41", "U+DB42", "U+DB43", "U+DB44",
    "U+DB45", "U+DB46", "U+DB47", "U+DB48", "U+DB49", "U+DB4A", "U+DB4B", "U+DB4C", "U+DB4D",
    "U+DB4E", "U+DB4F", "U+DB50", "U+DB51", "U+DB52", "U+DB53", "U+DB54", "U+DB55", "U+DB56",
    "U+DB57", "U+DB58", "U+DB59", "U+DB5A", "U+DB5B", "U+DB5C", "U+DB5D", "U+DB5E", "U+DB5F",
    "U+DB60", "U+DB61", "U+DB62", "U+DB63", "U+DB64", "U+DB65", "U+DB66", "U+DB67", "U+DB68",
    "U+DB69", "U+DB6A", "U+DB6B", "U+DB6C", "U+DB6D", "U+DB6E", "U+DB6F", "U+DB70", "U+DB71",
    "U+DB72", "U+DB73", "U+DB74", "U+DB75", "U+DB76", "U+DB77", "U+DB78", "U+DB79", "U+DB7A",
    "U+DB7B", "U+DB7C", "U+DB7D", "U+DB7E", "U+DB7F", "U+DB80", "U+DB81", "U+DB82", "U+DB83",
    "U+DB84", "U+DB85", "U+DB86", "U+DB87", "U+DB88", "U+DB89", "U+DB8A", "U+DB8B", "U+DB8C",
    "U+DB8D", "U+DB8E", "U+DB8F", "U+DB90", "U+DB91", "U+DB92", "U+DB93", "U+DB94", "U+DB95",
    "U+DB96", "U+DB97", "U+DB98", "U+DB99", "U+DB9A", "U+DB9B", "U+DB9C", "U+DB9D", "U+DB9E",
    "U+DB9F", "U+DBA0", "U+DBA1", "U+DBA2", "U+DBA3", "U+DBA4", "U+DBA5", "U+DBA6", "U+DBA7",
    "U+DBA8", "U+DBA9", "U+DBAA", "U+DBAB", "U+DBAC", "U+DBAD", "U+DBAE", "U+DBAF", "U+DBB0",
    "U+DBB1", "U+DBB2", "U+DBB3", "U+DBB4", "U+DBB5", "U+DBB6", "U+DBB7", "U+DBB8", "U+DBB9",
    "U+DBBA", "U+DBBB", "U+DBBC", "U+DBBD", "U+DBBE", "U+DBBF", "U+DBC0", "U+DBC1", "U+DBC2",
    "U+DBC3", "U+DBC4", "U+DBC5", "U+DBC6", "U+DBC7", "U+DBC8", "U+DBC9", "U+DBCA", "U+DBCB",
    "U+DBCC", "U+DBCD", "U+DBCE", "U+DBCF", "U+DBD0", "U+DBD1", "U+DBD2", "U+DBD3", "U+DBD4",
    "U+DBD5", "U+DBD6", "U+DBD7", "U+DBD8", "U+DBD9", "U+DBDA", "U+DBDB", "U+DBDC", "U+DBDD",
    "U+DBDE", "U+DBDF", "U+DBE0", "U+DBE1", "U+DBE2", "U+DBE3", "U+DBE4", "U+DBE5", "U+DBE6",
    "U+DBE7", "U+DBE8", "U+DBE9", "U+DBEA", "U+DBEB", "U+DBEC", "U+DBED", "U+DBEE", "U+DBEF",
    "U+DBF0", "U+DBF1", "U+DBF2", "U+DBF3", "U+DBF4", "U+DBF5", "U+DBF6", "U+DBF7", "U+DBF8",
    "U+DBF9", "U+DBFA", "U+DBFB", "U+DBFC", "U+DBFD", "U+DBFE", "U+DBFF", "U+DC00", "U+DC01",
    "U+DC02", "U+DC03", "U+DC04", "U+DC05", "U+DC06", "U+DC07", "U+DC08", "U+DC09", "U+DC0A",
    "U+DC0B", "U+DC0C", "U+DC0D", "U+DC0E", "U+DC0F", "U+DC10", "U+DC11", "U+DC12", "U+DC13",
    "U+DC14", "U+DC15", "U+DC16", "U+DC17", "U+DC18", "U+DC19", "U+DC1A", "U+DC1B", "U+DC1C",
    "U+DC1D", "U+DC1E", "U+DC1F", "U+DC20", "U+DC21", "U+DC22", "U+DC23", "U+DC24", "U+DC25",
    "U+DC26", "U+DC27", "U+DC28", "U+DC29", "U+DC2A", "U+DC2B", "U+DC2C", "U+DC2D", "U+DC2E",
    "U+DC2F", "U+DC30", "U+DC31", "U+DC32", "U+DC33", "U+DC34", "U+DC35", "U+DC36", "U+DC37",
    "U+DC38", "U+DC39", "U+DC3A", "U+DC3B", "U+DC3C", "U+DC3D", "U+DC3E", "U+DC3F", "U+DC40",
    "U+DC41", "U+DC42", "U+DC43", "U+DC44", "U+DC45", "U+DC46", "U+DC47", "U+DC48", "U+DC49",
    "U+DC4A", "U+DC4B", "U+DC4C", "U+DC4D", "U+DC4E", "U+DC4F", "U+DC50", "U+DC51", "U+DC52",
    "U+DC53", "U+DC54", "U+DC55", "U+DC56", "U+DC57", "U+DC58", "U+DC59", "U+DC5A", "U+DC5B",
    "U+DC5C", "U+DC5D", "U+DC5E", "U+DC5F", "U+DC60", "U+DC61", "U+DC62", "U+DC63", "U+DC64",
    "U+DC65", "U+DC66", "U+DC67", "U+DC68", "U+DC69", "U+DC6A", "U+DC6B", "U+DC6C", "U+DC6D",
    "U+DC6E", "U+DC6F", "U+DC70", "U+DC71", "U+DC72", "U+DC73", "U+DC74", "U+DC75", "U+DC76",
    "U+DC77", "U+DC78", "U+DC79", "U+DC7A", "U+DC7B", "U+DC7C", "U+DC7D", "U+DC7E", "U+DC7F",
    "U+DC80", "U+DC81", "U+DC82", "U+DC83", "U+DC84", "U+DC85", "U+DC86", "U+DC87", "U+DC88",
    "U+DC89", "U+DC8A", "U+DC8B", "U+DC8C", "U+DC8D", "U+DC8E", "U+DC8F", "U+DC90", "U+DC91",
    "U+DC92", "U+DC93", "U+DC94", "U+DC95", "U+DC96", "U+DC97", "U+DC98", "U+DC99", "U+DC9A",
    "U+DC9B", "U+DC9C", "U+DC9D", "U+DC9E", "U+DC9F", "U+DCA0", "U+DCA1", "U+DCA2", "U+DCA3",
    "U+DCA4", "U+DCA5", "U+DCA6", "U+DCA7", "U+DCA8", "U+DCA9", "U+DCAA", "U+DCAB", "U+DCAC",
    "U+DCAD", "U+DCAE", "U+DCAF", "U+DCB0", "U+DCB1", "U+DCB2", "U+DCB3", "U+DCB4", "U+DCB5",
    "U+DCB6", "U+DCB7", "U+DCB8", "U+DCB9", "U+DCBA", "U+DCBB", "U+DCBC", "U+DCBD", "U+DCBE",
    "U+DCBF", "U+DCC0", "U+DCC1", "U+DCC2", "U+DCC3", "U+DCC4", "U+DCC5", "U+DCC6", "U+DCC7",
    "U+DCC8", "U+DCC9", "U+DCCA", "U+DCCB", "U+DCCC", "U+DCCD", "U+DCCE", "U+DCCF", "U+DCD0",
    "U+DCD1", "U+DCD2", "U+DCD3", "U+DCD4", "U+DCD5", "U+DCD6", "U+DCD7", "U+DCD8", "U+DCD9",
    "U+DCDA", "U+DCDB", "U+DCDC", "U+DCDD", "U+DCDE", "U+DCDF", "U+DCE0", "U+DCE1", "U+DCE2",
    "U+DCE3", "U+DCE4", "U+DCE5", "U+DCE6", "U+DCE7", "U+DCE8", "U+DCE9", "U+DCEA", "U+DCEB",
    "U+DCEC", "U+DCED", "U+DCEE", "U+DCEF", "U+DCF0", "U+DCF1", "U+DCF2", "U+DCF3", "U+DCF4",
    "U+DCF5", "U+DCF6", "U+DCF7", "U+DCF8", "U+DCF9", "U+DCFA", "U+DCFB", "U+DCFC", "U+DCFD",
    "U+DCFE", "U+DCFF", "U+DD00", "U+DD01", "U+DD02", "U+DD03", "U+DD04", "U+DD05", "U+DD06",
    "U+DD07", "U+DD08", "U+DD09", "U+DD0A", "U+DD0B", "U+DD0C", "U+DD0D", "U+DD0E", "U+DD0F",
    "U+DD10", "U+DD11", "U+DD12", "U+DD13", "U+DD14", "U+DD15", "U+DD16", "U+DD17", "U+DD18",
    "U+DD19", "U+DD1A", "U+DD1B", "U+DD1C", "U+DD1D", "U+DD1E", "U+DD1F", "U+DD20", "U+DD21",
    "U+DD22", "U+DD23", "U+DD24", "U+DD25", "U+DD26", "U+DD27", "U+DD28", "U+DD29", "U+DD2A",
    "U+DD2B", "U+DD2C", "U+DD2D", "U+DD2E", "U+DD2F", "U+DD30", "U+DD31", "U+DD32", "U+DD33",
    "U+DD34", "U+DD35", "U+DD36", "U+DD37", "U+DD38", "U+DD39", "U+DD3A", "U+DD3B", "U+DD3C",
    "U+DD3D", "U+DD3E", "U+DD3F", "U+DD40", "U+DD41", "U+DD42", "U+DD43", "U+DD44", "U+DD45",
    "U+DD46", "U+DD47", "U+DD48", "U+DD49", "U+DD4A", "U+DD4B", "U+DD4C", "U+DD4D", "U+DD4E",
    "U+DD4F", "U+DD50", "U+DD51", "U+DD52", "U+DD53", "U+DD54", "U+DD55", "U+DD56", "U+DD57",
    "U+DD58", "U+DD59", "U+DD5A", "U+DD5B", "U+DD5C", "U+DD5D", "U+DD5E", "U+DD5F", "U+DD60",
    "U+DD61", "U+DD62", "U+DD63", "U+DD64", "U+DD65", "U+DD66", "U+DD67", "U+DD68", "U+DD69",
    "U+DD6A", "U+DD6B", "U+DD6C", "U+DD6D", "U+DD6E", "U+DD6F", "U+DD70", "U+DD71", "U+DD72",
    "U+DD73", "U+DD74", "U+DD75", "U+DD76", "U+DD77", "U+DD78", "U+DD79", "U+DD7A", "U+DD7B",
    "U+DD7C", "U+DD7D", "U+DD7E", "U+DD7F", "U+DD80", "U+DD81", "U+DD82", "U+DD83", "U+DD84",
    "U+DD85", "U+DD86", "U+DD87", "U+DD88", "U+DD89", "U+DD8A", "U+DD8B", "U+DD8C", "U+DD8D",
    "U+DD8E", "U+DD8F", "U+DD90", "U+DD91", "U+DD92", "U+DD93", "U+DD94", "U+DD95", "U+DD96",
    "U+DD97", "U+DD98", "U+DD99", "U+DD9A", "U+DD9B", "U+DD9C", "U+DD9D", "U+DD9E", "U+DD9F",
    "U+DDA0", "U+DDA1", "U+DDA2", "U+DDA3", "U+DDA4", "U+DDA5", "U+DDA6", "U+DDA7", "U+DDA8",
    "U+DDA9", "U+DDAA", "U+DDAB", "U+DDAC", "U+DDAD", "U+DDAE", "U+DDAF", "U+DDB0", "U+DDB1",
    "U+DDB2", "U+DDB3", "U+DDB4", "U+DDB5", "U+DDB6", "U+DDB7", "U+DDB8", "U+DDB9", "U+DDBA",
    "U+DDBB", "U+DDBC", "U+DDBD", "U+DDBE", "U+DDBF", "U+DDC0", "U+DDC1", "U+DDC2", "U+DDC3",
    "U+DDC4", "U+DDC5", "U+DDC6", "U+DDC7", "U+DDC8", "U+DDC9", "U+DDCA", "U+DDCB", "U+DDCC",
    "U+DDCD", "U+DDCE", "U+DDCF", "U+DDD0", "U+DDD1", "U+DDD2", "U+DDD3", "U+DDD4", "U+DDD5",
    "U+DDD6", "U+DDD7", "U+DDD8", "U+DDD9", "U+DDDA", "U+DDDB", "U+DDDC", "U+DDDD", "U+DDDE",
    "U+DDDF", "U+DDE0", "U+DDE1", "U+DDE2", "U+DDE3", "U+DDE4", "U+DDE5", "U+DDE6", "U+DDE7",
    "U+DDE8", "U+DDE9", "U+DDEA", "U+DDEB", "U+DDEC", "U+DDED", "U+DDEE", "U+DDEF", "U+DDF0",
    "U+DDF1", "U+DDF2", "U+DDF3", "U+DDF4", "U+DDF5", "U+DDF6", "U+DDF7", "U+DDF8", "U+DDF9",
    "U+DDFA", "U+DDFB", "U+DDFC", "U+DDFD", "U+DDFE", "U+DDFF", "U+DE00", "U+DE01", "U+DE02",
    "U+DE03", "U+DE04", "U+DE05", "U+DE06", "U+DE07", "U+DE08", "U+DE09", "U+DE0A", "U+DE0B",
    "U+DE0C", "U+DE0D", "U+DE0E", "U+DE0F", "U+DE10", "U+DE11", "U+DE12", "U+DE13", "U+DE14",
    "U+DE15", "U+DE16", "U+DE17", "U+DE18", "U+DE19", "U+DE1A", "U+DE1B", "U+DE1C", "U+DE1D",
    "U+DE1E", "U+DE1F", "U+DE20", "U+DE21", "U+DE22", "U+DE23", "U+DE24", "U+DE25", "U+DE26",
    "U+DE27", "U+DE28", "U+DE29", "U+DE2A", "U+DE2B", "U+DE2C", "U+DE2D", "U+DE2E", "U+DE2F",
    "U+DE30", "U+DE31", "U+DE32", "U+DE33", "U+DE34", "U+DE35", "U+DE36", "U+DE37", "U+DE38",
    "U+DE39", "U+DE3A", "U+DE3B", "U+DE3C", "U+DE3D", "U+DE3E", "U+DE3F", "U+DE40", "U+DE41",
    "U+DE42", "U+DE43", "U+DE44", "U+DE45", "U+DE46", "U+DE47", "U+DE48", "U+DE49", "U+DE4A",
    "U+DE4B", "U+DE4C", "U+DE4D", "U+DE4E", "U+DE4F", "U+DE50", "U+DE51", "U+DE52", "U+DE53",
    "U+DE54", "U+DE55", "U+DE56", "U+DE57", "U+DE58", "U+DE59", "U+DE5A", "U+DE5B", "U+DE5C",
    "U+DE5D", "U+DE5E", "U+DE5F", "U+DE60", "U+DE61", "U+DE62", "U+DE63", "U+DE64", "U+DE65",
    "U+DE66", "U+DE67", "U+DE68", "U+DE69", "U+DE6A", "U+DE6B", "U+DE6C", "U+DE6D", "U+DE6E",
    "U+DE6F", "U+DE70", "U+DE71", "U+DE72", "U+DE73", "U+DE74", "U+DE75", "U+DE76", "U+DE77",
    "U+DE78", "U+DE79", "U+DE7A", "U+DE7B", "U+DE7C", "U+DE7D", "U+DE7E", "U+DE7F", "U+DE80",
    "U+DE81", "U+DE82", "U+DE83", "U+DE84", "U+DE85", "U+DE86", "U+DE87", "U+DE88", "U+DE89",
    "U+DE8A", "U+DE8B", "U+DE8C", "U+DE8D", "U+DE8E", "U+DE8F", "U+DE90", "U+DE91", "U+DE92",
    "U+DE93", "U+DE94", "U+DE95", "U+DE96", "U+DE97", "U+DE98", "U+DE99", "U+DE9A", "U+DE9B",
    "U+DE9C", "U+DE9D", "U+DE9E", "U+DE9F", "U+DEA0", "U+DEA1", "U+DEA2", "U+DEA3", "U+DEA4",
    "U+DEA5", "U+DEA6", "U+DEA7", "U+DEA8", "U+DEA9", "U+DEAA", "U+DEAB", "U+DEAC", "U+DEAD",
    "U+DEAE", "U+DEAF", "U+DEB0", "U+DEB1", "U+DEB2", "U+DEB3", "U+DEB4", "U+DEB5", "U+DEB6",
    "U+DEB7", "U+DEB8", "U+DEB9", "U+DEBA", "U+DEBB", "U+DEBC", "U+DEBD", "U+DEBE", "U+DEBF",
    "U+DEC0", "U+DEC1", "U+DEC2", "U+DEC3", "U+DEC4", "U+DEC5", "U+DEC6", "U+DEC7", "U+DEC8",
    "U+DEC9", "U+DECA", "U+DECB", "U+DECC", "U+DECD", "U+DECE", "U+DECF", "U+DED0", "U+DED1",
    "U+DED2", "U+DED3", "U+DED4", "U+DED5", "U+DED6", "U+DED7", "U+DED8", "U+DED9", "U+DEDA",
    "U+DEDB", "U+DEDC", "U+DEDD", "U+DEDE", "U+DEDF", "U+DEE0", "U+DEE1", "U+DEE2", "U+DEE3",
    "U+DEE4", "U+DEE5", "U+DEE6", "U+DEE7", "U+DEE8", "U+DEE9", "U+DEEA", "U+DEEB", "U+DEEC",
    "U+DEED", "U+DEEE", "U+DEEF", "U+DEF0", "U+DEF1", "U+DEF2", "U+DEF3", "U+DEF4", "U+DEF5",
    "U+DEF6", "U+DEF7", "U+DEF8", "U+DEF9", "U+DEFA", "U+DEFB", "U+DEFC", "U+DEFD", "U+DEFE",
    "U+DEFF", "U+DF00", "U+DF01", "U+DF02", "U+DF03", "U+DF04", "U+DF05", "U+DF06", "U+DF07",
    "U+DF08", "U+DF09", "U+DF0A", "U+DF0B", "U+DF0C", "U+DF0D", "U+DF0E", "U+DF0F", "U+DF10",
    "U+DF11", "U+DF12", "U+DF13", "U+DF14", "U+DF15", "U+DF16", "U+DF17", "U+DF18", "U+DF19",
    "U+DF1A", "U+DF1B", "U+DF1C", "U+DF1D", "U+DF1E", "U+DF1F", "U+DF20", "U+DF21", "U+DF22",
    "U+DF23", "U+DF24", "U+DF25", "U+DF26", "U+DF27", "U+DF28", "U+DF29", "U+DF2A", "U+DF2B",
    "U+DF2C", "U+DF2D", "U+DF2E", "U+DF2F", "U+DF30", "U+DF31", "U+DF32", "U+DF33", "U+DF34",
    "U+DF35", "U+DF36", "U+DF37", "U+DF38", "U+DF39", "U+DF3A", "U+DF3B", "U+DF3C", "U+DF3D",
    "U+DF3E", "U+DF3F", "U+DF40", "U+DF41", "U+DF42", "U+DF43", "U+DF44", "U+DF45", "U+DF46",
    "U+DF47", "U+DF48", "U+DF49", "U+DF4A", "U+DF4B", "U+DF4C", "U+DF4D", "U+DF4E", "U+DF4F",
    "U+DF50", "U+DF51", "U+DF52", "U+DF53", "U+DF54", "U+DF55", "U+DF56", "U+DF57", "U+DF58",
    "U+DF59", "U+DF5A", "U+DF5B", "U+DF5C", "U+DF5D", "U+DF5E", "U+DF5F", "U+DF60", "U+DF61",
    "U+DF62", "U+DF63", "U+DF64", "U+DF65", "U+DF66", "U+DF67", "U+DF68", "U+DF69", "U+DF6A",
    "U+DF6B", "U+DF6C", "U+DF6D", "U+DF6E", "U+DF6F", "U+DF70", "U+DF71", "U+DF72", "U+DF73",
    "U+DF74", "U+DF75", "U+DF76", "U+DF77", "U+DF78", "U+DF79", "U+DF7A", "U+DF7B", "U+DF7C",
    "U+DF7D", "U+DF7E", "U+DF7F", "U+DF80", "U+DF81", "U+DF82", "U+DF83", "U+DF84", "U+DF85",
    "U+DF86", "U+DF87", "U+DF88", "U+DF89", "U+DF8A", "U+DF8B", "U+DF8C", "U+DF8D", "U+DF8E",
    "U+DF8F", "U+DF90", "U+DF91", "U+DF92", "U+DF93", "U+DF94", "U+DF95", "U+DF96", "U+DF97",
    "U+DF98", "U+DF99", "U+DF9A", "U+DF9B", "U+DF9C", "U+DF9D", "U+DF9E", "U+DF9F", "U+DFA0",
    "U+DFA1", "U+DFA2", "U+DFA3", "U+DFA4", "U+DFA5", "U+DFA6", "U+DFA7", "U+DFA8", "U+DFA9",
    "U+DFAA", "U+DFAB", "U+DFAC", "U+DFAD", "U+DFAE", "U+DFAF", "U+DFB0", "U+DFB1", "U+DFB2",
    "U+DFB3", "U+DFB4", "U+DFB5", "U+DFB6", "U+DFB7", "U+DFB8", "U+DFB9", "U+DFBA", "U+DFBB",
    "U+DFBC", "U+DFBD", "U+DFBE", "U+DFBF", "U+DFC0", "U+DFC1", "U+DFC2", "U+DFC3", "U+DFC4",
    "U+DFC5", "U+DFC6", "U+DFC7", "U+DFC8", "U+DFC9", "U+DFCA", "U+DFCB", "U+DFCC", "U+DFCD",
    "U+DFCE", "U+DFCF", "U+DFD0", "U+DFD1", "U+DFD2", "U+DFD3", "U+DFD4", "U+DFD5", "U+DFD6",
    "U+DFD7", "U+DFD8", "U+DFD9", "U+DFDA", "U+DFDB", "U+DFDC", "U+DFDD", "U+DFDE", "U+DFDF",
    "U+DFE0", "U+DFE1", "U+DFE2", "U+DFE3", "U+DFE4", "U+DFE5", "U+DFE6", "U+DFE7", "U+DFE8",
    "U+DFE9", "U+DFEA", "U+DFEB", "U+DFEC", "U+DFED", "U+DFEE", "U+DFEF", "U+DFF0", "U+DFF1",
    "U+DFF2", "U+DFF3", "U+DFF4", "U+DFF5", "U+DFF6", "U+DFF7", "U+DFF8", "U+DFF9", "U+DFFA",
    "U+DFFB", "U+DFFC", "U+DFFD", "U+DFFE", "U+DFFF"
  }
-----------------------------------------------------------------------------
(* str operations *)

\* the images of a case table: each character it lists, to the characters that
\* follow it in its four entries
CaseImages(table) ==
  [c \in {table[4 * k - 3] : k \in 1..(Len(table) \div 4)} |->
     LET k == CHOOSE r \in 1..(Len(table) \div 4) : table[4 * r - 3] = c
     IN  SubSeq(table, 4 * k - 2, 4 * k - 3 + Cardinality({j \in 1..3 : table[4 * k - 3 + j] /= ""}))]

\* the image under str.lower() of a character it changes
ToLower == CaseImages(LowerMapping)

\* the image under str.upper() of a character it changes
ToUpper == CaseImages(UpperMapping)

\* the characters str.lower() changes
LowerChanged == DOMAIN ToLower

\* the characters str.upper() changes
UpperChanged == DOMAIN ToUpper

\* the concatenation of parts[a], ..., parts[b]
RECURSIVE JoinRange(_, _, _)
JoinRange(parts, a, b) ==
  IF a > b THEN <<>>
  ELSE IF a = b THEN parts[a]
  ELSE LET m == (a + b) \div 2
       IN  JoinRange(parts, a, m) \o JoinRange(parts, m + 1, b)

\* ''.join(parts), as a sequence
Join(parts) ==
  IF \A i \in 1..Len(parts) : Len(parts[i]) = 1
  THEN <<>> \o [i \in 1..Len(parts) |-> parts[i][1]]
  ELSE JoinRange(parts, 1, Len(parts))

\* the U+03A3 at position i of s ends a word: the nearest character before it
\* that is not skipped has a case, and the nearest one after it, if any, has none
FinalSigma(s, i) ==
  LET before == {j \in 1..(i - 1) : s[j] \notin CaseIgnorable}
      after  == {j \in (i + 1)..Len(s) : s[j] \notin CaseIgnorable}
  IN  /\ before /= {}
      /\ s[CHOOSE j \in before : \A k \in before : k <= j] \in Cased
      /\ after = {} \/ s[CHOOSE j \in after : \A k \in after : j <= k] \notin Cased

\* the characters str.lower() puts for the character at position i of s
LowerAt(s, i) ==
  IF s[i] = "U+03A3" /\ FinalSigma(s, i) THEN <<"U+03C2">>
  ELSE IF s[i] \in LowerChanged THEN ToLower[s[i]] ELSE <<s[i]>>

\* the characters str.upper() puts for the character at position i of s
UpperAt(s, i) == IF s[i] \in UpperChanged THEN ToUpper[s[i]] ELSE <<s[i]>>

\* str.lower()
Lower(s) == Join([i \in 1..Len(s) |-> LowerAt(s, i)])

\* str.upper()
Upper(s) == Join([i \in 1..Len(s) |-> UpperAt(s, i)])

\* sub occurs in s at the 1-based position i
OccursAt(s, sub, i) ==
  /\ i >= 1
  /\ i + Len(sub) - 1 <= Len(s)
  /\ \A j \in 1..Len(sub) : s[i + j - 1] = sub[j]

\* sub in s
Contains(s, sub) == \E i \in 1..(Len(s) - Len(sub) + 1) : OccursAt(s, sub, i)

\* a faulty s[:n] that cuts nothing
PrefixWhole(s, n) == s

\* s[:n]
Prefix(s, n) == SubSeq(s, 1, IF n < Len(s) THEN n ELSE Len(s))

\* the characters \d matches
DigitSet == {Digits[k] : k \in DOMAIN Digits}

\* int(c) of one decimal digit
DigitValue(c) == ((CHOOSE k \in DOMAIN Digits : Digits[k] = c) - 1) % 10

\* least position q >= p of s whose character is not in S; Len(s) + 1 if none
SkipWhile(s, p, S) ==
  CHOOSE q \in p..(Len(s) + 1) :
    /\ q = Len(s) + 1 \/ s[q] \notin S
    /\ \A r \in p..(q - 1) : s[r] \in S

\* str.strip()
Strip(s) ==
  LET a == SkipWhile(s, 1, Whitespace)
      b == IF a > Len(s) THEN a - 1
           ELSE CHOOSE q \in a..Len(s) :
                  /\ s[q] \notin Whitespace
                  /\ \A r \in (q + 1)..Len(s) : s[r] \in Whitespace
  IN  SubSeq(s, a, b)

\* the longest digit string int() converts (sys.int_info.default_max_str_digits)
IntMaxStrDigits == 4300

\* int(ds) raises ValueError: ds has more digits than the interpreter converts
IntRaises(ds) == Len(ds) > IntMaxStrDigits

\* int(ds) of a non-empty string of decimal digits that int() converts
RECURSIVE ParseInt(_)
ParseInt(ds) ==
  IF Len(ds) = 0 THEN 0
  ELSE 10 * ParseInt(SubSeq(ds, 1, Len(ds) - 1)) + DigitValue(ds[Len(ds)])

\* the characters int() skips around a number: the whitespace of the
\* interpreter except the four separators U+001C..U+001F
IntWhitespace == Whitespace \ {"U+001C", "U+001D", "U+001E", "U+001F"}

\* the text int(s) reads its number from: s without the leading and the
\* trailing whitespace
IntLiteral(s) ==
  LET a == SkipWhile(s, 1, IntWhitespace)
      b == IF a > Len(s) THEN a - 1
           ELSE CHOOSE q \in a..Len(s) :
                  /\ s[q] \notin IntWhitespace
                  /\ \A r \in (q + 1)..Len(s) : s[r] \in IntWhitespace
  IN  SubSeq(s, a, b)

\* the literal without its sign
IntUnsigned(t) == IF t /= <<>> /\ t[1] \in {"+", "-"} THEN Tail(t) ELSE t

\* the digits of an unsigned literal, without the underscores that group them
IntDigits(u) == SelectSeq(u, LAMBDA c : c /= "_")

\* int(s) raises ValueError: s is no optionally signed string of decimal
\* digits, grouped at most by single underscores between two digits, or it
\* has more digits than the interpreter converts
IntInvalid(s) ==
  LET u == IntUnsigned(IntLiteral(s))
  IN  \/ u = <<>>
      \/ \E i \in 1..Len(u) :
           /\ u[i] \notin DigitSet
           /\ ~(/\ u[i] = "_" /\ i > 1 /\ i < Len(u)
                /\ u[i - 1] \in DigitSet /\ u[i + 1] \in DigitSet)
      \/ IntRaises(IntDigits(u))

\* int(s) of a str that int() converts
ToInt(s) ==
  LET t == IntLiteral(s)
      n == ParseInt(IntDigits(IntUnsigned(t)))
  IN  IF t[1] = "-" THEN 0 - n ELSE n

\* str(n) of an int n >= 0, as str.format renders it
RECURSIVE IntToStr(_)
IntToStr(n) ==
  IF n < 10 THEN <<Digits[n + 1]>>
  ELSE IntToStr(n \div 10) \o <<Digits[(n % 10) + 1]>>

\* template.format(**args): every replacement field is replaced by its argument
RECURSIVE FormatFrom(_, _, _)
FormatFrom(t, args, from) ==
  LET fields == {i \in from..Len(t) : t[i] \in DOMAIN args}
  IN  IF fields = {} THEN SubSeq(t, from, Len(t))
      ELSE LET p == CHOOSE i \in fields : \A k \in fields : i <= k
           IN  SubSeq(t, from, p - 1) \o args[t[p]] \o FormatFrom(t, args, p + 1)

Format(t, args) == FormatFrom(t, args, 1)

\* prompt_templates.py:6-26 (568 characters and placeholders)
QUALIFICATION_PROMPT_A ==
  <<"Y", "o", "u", " ", "a", "r", "e", " ", "a", "n", " ", "A", "I", " ", "S", "a", "l", "e",
    "s", " ", "D", "e", "v", "e", "l", "o", "p", "m", "e", "n", "t", " ", "R", "e", "p", "r",
    "e", "s", "e", "n", "t", "a", "t", "i", "v", "e", " ", "e", "v", "a", "l", "u", "a", "t",
    "i", "n", "g", " ", "a", " ", "l", "e", "a", "d", ".", "\n", "\n", "L", "e", "a", "d", " ",
    "I", "n", "f", "o", "r", "m", "a", "t", "i", "o", "n", ":", "\n", "-", " ", "C", "o", "m",
    "p", "a", "n", "y", ":", " ", "{company_name}", "\n", "-", " ", "I", "n", "d", "u", "s",
    "t", "r", "y", ":", " ", "{industry}", "\n", "-", " ", "C", "o", "m", "p", "a", "n", "y",
    " ", "S", "i", "z", "e", ":", " ", "{company_size}", "\n", "-", " ", "C", "o", "n", "t",
    "a", "c", "t", ":", " ", "{contact_name}", " ", "(", "{contact_email}", ")", "\n", "\n",
    "Y", "o", "u", "r", " ", "t", "a", "s", "k", ":", "\n", "1", ".", " ", "E", "v", "a", "l",
    "u", "a", "t", "e", " ", "i", "f", " ", "t", "h", "i", "s", " ", "l", "e", "a", "d", " ",
    "i", "s", " ", "q", "u", "a", "l", "i", "f", "i", "e", "d", " ", "b", "a", "s", "e", "d",
    " ", "o", "n", ":", "\n", " ", " ", " ", "-", " ", "C", "o", "m", "p", "a", "n", "y", " ",
    "s", "i", "z", "e", " ", "(", "p", "r", "e", "f", "e", "r", " ", "5", "0", "-", "5", "0",
    "0", " ", "o", "r", " ", "5", "0", "0", "-", "2", "0", "0", "0", " ", "e", "m", "p", "l",
    "o", "y", "e", "e", "s", ")", "\n", " ", " ", " ", "-", " ", "I", "n", "d", "u", "s", "t",
    "r", "y", " ", "f", "i", "t", " ", "(", "S", "a", "a", "S", ",", " ", "F", "i", "n", "a",
    "n", "c", "e", ",", " ", "H", "e", "a", "l", "t", "h", "c", "a", "r", "e", " ", "a", "r",
    "e", " ", "g", "o", "o", "d", " ", "f", "i", "t", "s", ")", "\n", " ", " ", " ", "-", " ",
    "C", "o", "n", "t", "a", "c", "t", " ", "i", "n", "f", "o", "r", "m", "a", "t", "i", "o",
    "n", " ", "c", "o", "m", "p", "l", "e", "t", "e", "n", "e", "s", "s", "\n", "2", ".", " ",
    "A", "s", "s", "i", "g", "n", " ", "a", " ", "q", "u", "a", "l", "i", "f", "i", "c", "a",
    "t", "i", "o", "n", " ", "s", "c", "o", "r", "e", " ", "(", "0", "-", "1", "0", "0", ")",
    "\n", "3", ".", " ", "P", "r", "o", "v", "i", "d", "e", " ", "a", " ", "b", "r", "i", "e",
    "f", " ", "r", "e", "c", "o", "m", "m", "e", "n", "d", "a", "t", "i", "o", "n", " ", "(",
    "Q", "U", "A", "L", "I", "F", "I", "E", "D", " ", "o", "r", " ", "D", "I", "S", "Q", "U",
    "A", "L", "I", "F", "I", "E", "D", ")", "\n", "\n", "R", "e", "s", "p", "o", "n", "s", "e",
    " ", "f", "o", "r", "m", "a", "t", ":", "\n", "S", "c", "o", "r", "e", ":", " ", "[", "0",
    "-", "1", "0", "0", "]", "\n", "R", "e", "c", "o", "m", "m", "e", "n", "d", "a", "t", "i",
    "o", "n", ":", " ", "[", "Q", "U", "A", "L", "I", "F", "I", "E", "D", "/", "D", "I", "S",
    "Q", "U", "A", "L", "I", "F", "I", "E", "D", "]", "\n", "R", "e", "a", "s", "o", "n", "i",
    "n", "g", ":", " ", "[", "B", "r", "i", "e", "f", " ", "e", "x", "p", "l", "a", "n", "a",
    "t", "i", "o", "n", "]", "\n">>

\* prompt_templates.py:28-51 (500 characters and placeholders)
QUALIFICATION_PROMPT_B ==
  <<"A", "s", " ", "a", "n", " ", "A", "I", " ", "S", "D", "R", ",", " ", "a", "s", "s", "e",
    "s", "s", " ", "t", "h", "i", "s", " ", "s", "a", "l", "e", "s", " ", "l", "e", "a", "d",
    " ", "f", "o", "r", " ", "q", "u", "a", "l", "i", "f", "i", "c", "a", "t", "i", "o", "n",
    ".", "\n", "\n", "L", "e", "a", "d", " ", "D", "e", "t", "a", "i", "l", "s", ":", "\n",
    "C", "o", "m", "p", "a", "n", "y", ":", " ", "{company_name}", "\n", "I", "n", "d", "u",
    "s", "t", "r", "y", ":", " ", "{industry}", "\n", "S", "i", "z", "e", ":", " ",
    "{company_size}", "\n", "C", "o", "n", "t", "a", "c", "t", ":", " ", "{contact_name}", " ",
    "<", "{contact_email}", ">", "\n", "\n", "Q", "u", "a", "l", "i", "f", "i", "c", "a", "t",
    "i", "o", "n", " ", "C", "r", "i", "t", "e", "r", "i", "a", ":", "\n", "U+2713", " ", "C",
    "o", "m", "p", "a", "n", "y", " ", "s", "i", "z", "e", " ", "5", "0", "+", " ", "e", "m",
    "p", "l", "o", "y", "e", "e", "s", " ", "(", "h", "i", "g", "h", "e", "r", " ", "p", "r",
    "i", "o", "r", "i", "t", "y", " ", "f", "o", "r", " ", "5", "0", "-", "2", "0", "0", "0",
    ")", "\n", "U+2713", " ", "I", "n", "d", "u", "s", "t", "r", "y", " ", "a", "l", "i", "g",
    "n", "m", "e", "n", "t", " ", "(", "S", "a", "a", "S", ",", " ", "T", "e", "c", "h", ",",
    " ", "F", "i", "n", "a", "n", "c", "e", ",", " ", "H", "e", "a", "l", "t", "h", "c", "a",
    "r", "e", ")", "\n", "U+2713", " ", "C", "o", "m", "p", "l", "e", "t", "e", " ", "c", "o",
    "n", "t", "a", "c", "t", " ", "i", "n", "f", "o", "r", "m", "a", "t", "i", "o", "n", "\n",
    "U+2713", " ", "N", "o", " ", "o", "b", "v", "i", "o", "u", "s", " ", "d", "i", "s", "q",
    "u", "a", "l", "i", "f", "i", "e", "r", "s", "\n", "\n", "P", "r", "o", "v", "i", "d", "e",
    ":", "\n", "1", ".", " ", "Q", "u", "a", "l", "i", "f", "i", "c", "a", "t", "i", "o", "n",
    " ", "s", "c", "o", "r", "e", " ", "(", "0", "-", "1", "0", "0", ")", "\n", "2", ".", " ",
    "C", "l", "e", "a", "r", " ", "Q", "U", "A", "L", "I", "F", "I", "E", "D", " ", "o", "r",
    " ", "D", "I", "S", "Q", "U", "A", "L", "I", "F", "I", "E", "D", " ", "d", "e", "c", "i",
    "s", "i", "o", "n", "\n", "3", ".", " ", "K", "e", "y", " ", "r", "e", "a", "s", "o", "n",
    "i", "n", "g", " ", "p", "o", "i", "n", "t", "s", "\n", "\n", "F", "o", "r", "m", "a", "t",
    ":", "\n", "S", "c", "o", "r", "e", ":", " ", "X", "X", "\n", "D", "e", "c", "i", "s", "i",
    "o", "n", ":", " ", "Q", "U", "A", "L", "I", "F", "I", "E", "D", "/", "D", "I", "S", "Q",
    "U", "A", "L", "I", "F", "I", "E", "D", "\n", "R", "e", "a", "s", "o", "n", "i", "n", "g",
    ":", " ", "[", "e", "x", "p", "l", "a", "n", "a", "t", "i", "o", "n", "]", "\n">>

\* prompt_templates.py:54-71 (343 characters and placeholders)
EMAIL_PROMPT_A ==
  <<"G", "e", "n", "e", "r", "a", "t", "e", " ", "a", " ", "p", "r", "o", "f", "e", "s", "s",
    "i", "o", "n", "a", "l", ",", " ", "p", "e", "r", "s", "o", "n", "a", "l", "i", "z", "e",
    "d", " ", "s", "a", "l", "e", "s", " ", "o", "u", "t", "r", "e", "a", "c", "h", " ", "e",
    "m", "a", "i", "l", ".", "\n", "\n", "L", "e", "a", "d", " ", "C", "o", "n", "t", "e", "x",
    "t", ":", "\n", "-", " ", "C", "o", "m", "p", "a", "n", "y", ":", " ", "{company_name}",
    "\n", "-", " ", "I", "n", "d", "u", "s", "t", "r", "y", ":", " ", "{industry}", "\n", "-",
    " ", "C", "o", "n", "t", "a", "c", "t", ":", " ", "{contact_name}", "\n", "-", " ", "Q",
    "u", "a", "l", "i", "f", "i", "c", "a", "t", "i", "o", "n", " ", "S", "c", "o", "r", "e",
    ":", " ", "{score}", "\n", "\n", "R", "e", "q", "u", "i", "r", "e", "m", "e", "n", "t",
    "s", ":", "\n", "-", " ", "P", "r", "o", "f", "e", "s", "s", "i", "o", "n", "a", "l", " ",
    "b", "u", "t", " ", "f", "r", "i", "e", "n", "d", "l", "y", " ", "t", "o", "n", "e", "\n",
    "-", " ", "P", "e", "r", "s", "o", "n", "a", "l", "i", "z", "e", " ", "b", "a", "s", "e",
    "d", " ", "o", "n", " ", "i", "n", "d", "u", "s", "t", "r", "y", "\n", "-", " ", "C", "l",
    "e", "a", "r", " ", "v", "a", "l", "u", "e", " ", "p", "r", "o", "p", "o", "s", "i", "t",
    "i", "o", "n", "\n", "-", " ", "S", "p", "e", "c", "i", "f", "i", "c", " ", "c", "a", "l",
    "l", "-", "t", "o", "-", "a", "c", "t", "i", "o", "n", "\n", "-", " ", "K", "e", "e", "p",
    " ", "u", "n", "d", "e", "r", " ", "1", "5", "0", " ", "w", "o", "r", "d", "s", "\n", "-",
    " ", "I", "n", "c", "l", "u", "d", "e", " ", "s", "u", "b", "j", "e", "c", "t", " ", "l",
    "i", "n", "e", "\n", "\n", "G", "e", "n", "e", "r", "a", "t", "e", " ", "t", "h", "e", " ",
    "e", "m", "a", "i", "l", " ", "n", "o", "w", ":", "\n">>

\* prompt_templates.py:73-89 (334 characters and placeholders)
EMAIL_PROMPT_B ==
  <<"C", "r", "e", "a", "t", "e", " ", "a", " ", "c", "o", "m", "p", "e", "l", "l", "i", "n",
    "g", " ", "s", "a", "l", "e", "s", " ", "e", "m", "a", "i", "l", " ", "f", "o", "r", " ",
    "t", "h", "i", "s", " ", "q", "u", "a", "l", "i", "f", "i", "e", "d", " ", "l", "e", "a",
    "d", ".", "\n", "\n", "C", "o", "m", "p", "a", "n", "y", ":", " ", "{company_name}", "\n",
    "I", "n", "d", "u", "s", "t", "r", "y", ":", " ", "{industry}", "\n", "C", "o", "n", "t",
    "a", "c", "t", " ", "P", "e", "r", "s", "o", "n", ":", " ", "{contact_name}", "\n", "F",
    "i", "t", " ", "S", "c", "o", "r", "e", ":", " ", "{score}", "/", "1", "0", "0", "\n",
    "\n", "E", "m", "a", "i", "l", " ", "G", "u", "i", "d", "e", "l", "i", "n", "e", "s", ":",
    "\n", "1", ".", " ", "C", "a", "t", "c", "h", "y", " ", "s", "u", "b", "j", "e", "c", "t",
    " ", "l", "i", "n", "e", "\n", "2", ".", " ", "P", "e", "r", "s", "o", "n", "a", "l", " ",
    "g", "r", "e", "e", "t", "i", "n", "g", "\n", "3", ".", " ", "R", "e", "l", "e", "v", "a",
    "n", "t", " ", "i", "n", "d", "u", "s", "t", "r", "y", " ", "i", "n", "s", "i", "g", "h",
    "t", "\n", "4", ".", " ", "C", "l", "e", "a", "r", " ", "v", "a", "l", "u", "e", " ", "p",
    "r", "o", "p", "o", "s", "i", "t", "i", "o", "n", " ", " ", "\n", "5", ".", " ", "S", "o",
    "f", "t", " ", "c", "a", "l", "l", "-", "t", "o", "-", "a", "c", "t", "i", "o", "n", " ",
    "(", "r", "e", "q", "u", "e", "s", "t", " ", "f", "o", "r", " ", "b", "r", "i", "e", "f",
    " ", "c", "a", "l", "l", ")", "\n", "6", ".", " ", "P", "r", "o", "f", "e", "s", "s", "i",
    "o", "n", "a", "l", " ", "c", "l", "o", "s", "e", "\n", "\n", "W", "r", "i", "t", "e", " ",
    "t", "h", "e", " ", "c", "o", "m", "p", "l", "e", "t", "e", " ", "e", "m", "a", "i", "l",
    ":", "\n">>

\* llm_service.py:131-136 (221 characters)
FallbackQualifyText ==
  <<"B", "a", "s", "e", "d", " ", "o", "n", " ", "t", "h", "e", " ", "p", "r", "o", "v", "i",
    "d", "e", "d", " ", "i", "n", "f", "o", "r", "m", "a", "t", "i", "o", "n", ":", "\n", "-",
    " ", "C", "o", "m", "p", "a", "n", "y", " ", "s", "i", "z", "e", " ", "a", "n", "d", " ",
    "i", "n", "d", "u", "s", "t", "r", "y", " ", "a", "r", "e", " ", "g", "o", "o", "d", " ",
    "f", "i", "t", "\n", "-", " ", "C", "o", "n", "t", "a", "c", "t", " ", "i", "n", "f", "o",
    "r", "m", "a", "t", "i", "o", "n", " ", "i", "s", " ", "c", "o", "m", "p", "l", "e", "t",
    "e", "\n", "-", " ", "E", "n", "g", "a", "g", "e", "m", "e", "n", "t", " ", "s", "i", "g",
    "n", "a", "l", "s", " ", "a", "r", "e", " ", "p", "o", "s", "i", "t", "i", "v", "e", "\n",
    "Q", "u", "a", "l", "i", "f", "i", "c", "a", "t", "i", "o", "n", " ", "S", "c", "o", "r",
    "e", ":", " ", "7", "5", "/", "1", "0", "0", "\n", "R", "e", "c", "o", "m", "m", "e", "n",
    "d", "a", "t", "i", "o", "n", ":", " ", "Q", "U", "A", "L", "I", "F", "I", "E", "D", " ",
    "-", " ", "P", "r", "o", "c", "e", "e", "d", " ", "w", "i", "t", "h", " ", "o", "u", "t",
    "r", "e", "a", "c", "h">>

\* llm_service.py:139-147 (281 characters)
FallbackEmailText ==
  <<"S", "u", "b", "j", "e", "c", "t", ":", " ", "Q", "u", "i", "c", "k", " ", "q", "u", "e",
    "s", "t", "i", "o", "n", " ", "a", "b", "o", "u", "t", " ", "[", "t", "o", "p", "i", "c",
    "]", "\n", "\n", "H", "i", " ", "[", "N", "a", "m", "e", "]", ",", "\n", "\n", "I", " ",
    "n", "o", "t", "i", "c", "e", "d", " ", "[", "c", "o", "m", "p", "a", "n", "y", "]", " ",
    "i", "s", " ", "[", "r", "e", "l", "e", "v", "a", "n", "t", " ", "o", "b", "s", "e", "r",
    "v", "a", "t", "i", "o", "n", "]", ".", " ", "W", "e", "'", "v", "e", " ", "h", "e", "l",
    "p", "e", "d", " ", "s", "i", "m", "i", "l", "a", "r", " ", "c", "o", "m", "p", "a", "n",
    "i", "e", "s", " ", "i", "n", " ", "[", "i", "n", "d", "u", "s", "t", "r", "y", "]", " ",
    "a", "c", "h", "i", "e", "v", "e", " ", "[", "s", "p", "e", "c", "i", "f", "i", "c", " ",
    "b", "e", "n", "e", "f", "i", "t", "]", ".", "\n", "\n", "W", "o", "u", "l", "d", " ", "y",
    "o", "u", " ", "b", "e", " ", "o", "p", "e", "n", " ", "t", "o", " ", "a", " ", "b", "r",
    "i", "e", "f", " ", "c", "a", "l", "l", " ", "n", "e", "x", "t", " ", "w", "e", "e", "k",
    " ", "t", "o", " ", "e", "x", "p", "l", "o", "r", "e", " ", "i", "f", " ", "t", "h", "i",
    "s", " ", "c", "o", "u", "l", "d", " ", "b", "e", " ", "v", "a", "l", "u", "a", "b", "l",
    "e", " ", "f", "o", "r", " ", "y", "o", "u", "r", " ", "t", "e", "a", "m", "?", "\n", "\n",
    "B", "e", "s", "t", " ", "r", "e", "g", "a", "r", "d", "s">>

\* llm_service.py:150-150 (53 characters)
FallbackGenericText ==
  <<"A", "n", "a", "l", "y", "s", "i", "s", " ", "c", "o", "m", "p", "l", "e", "t", "e", ".",
    " ", "P", "r", "o", "c", "e", "e", "d", "i", "n", "g", " ", "w", "i", "t", "h", " ", "s",
    "t", "a", "n", "d", "a", "r", "d", " ", "w", "o", "r", "k", "f", "l", "o", "w", ".">>

\* sdr_agent.py:259-268
FallbackEmailTemplate ==
  <<"S", "u", "b", "j", "e", "c", "t", ":", " ", "Q", "u", "i", "c", "k", " ", "q", "u", "e",
    "s", "t", "i", "o", "n", " ", "a", "b", "o", "u", "t", " ", "{company}", "'", "s", " ",
    "g", "r", "o", "w", "t", "h", "\n", "\n", "H", "i", " ", "{name}", ",", "\n", "\n", "I",
    " ", "n", "o", "t", "i", "c", "e", "d", " ", "{company}", " ", "i", "s", " ", "m", "a",
    "k", "i", "n", "g", " ", "m", "o", "v", "e", "s", " ", "i", "n", " ", "t", "h", "e", " ",
    "{industry}", " ", "s", "p", "a", "c", "e", ".", " ", "W", "e", "'", "v", "e", " ", "b",
    "e", "e", "n", " ", "h", "e", "l", "p", "i", "n", "g", " ", "s", "i", "m", "i", "l", "a",
    "r", " ", "c", "o", "m", "p", "a", "n", "i", "e", "s", " ", "s", "t", "r", "e", "a", "m",
    "l", "i", "n", "e", " ", "t", "h", "e", "i", "r", " ", "s", "a", "l", "e", "s", " ", "o",
    "p", "e", "r", "a", "t", "i", "o", "n", "s", " ", "w", "i", "t", "h", " ", "A", "I", "-",
    "p", "o", "w", "e", "r", "e", "d", " ", "t", "o", "o", "l", "s", ".", "\n", "\n", "W", "o",
    "u", "l", "d", " ", "y", "o", "u", " ", "b", "e", " ", "o", "p", "e", "n", " ", "t", "o",
    " ", "a", " ", "b", "r", "i", "e", "f", " ", "1", "5", "-", "m", "i", "n", "u", "t", "e",
    " ", "c", "a", "l", "l", " ", "n", "e", "x", "t", " ", "w", "e", "e", "k", " ", "t", "o",
    " ", "e", "x", "p", "l", "o", "r", "e", " ", "i", "f", " ", "t", "h", "i", "s", " ", "c",
    "o", "u", "l", "d", " ", "b", "e", " ", "v", "a", "l", "u", "a", "b", "l", "e", " ", "f",
    "o", "r", " ", "y", "o", "u", "r", " ", "t", "e", "a", "m", "?", "\n", "\n", "B", "e", "s",
    "t", " ", "r", "e", "g", "a", "r", "d", "s", ",", "\n", "A", "I", " ", "S", "D", "R", " ",
    "T", "e", "a", "m">>

\* get_qualification_prompt(variant)
get_qualification_prompt(variant) ==
  IF variant = "B" THEN QUALIFICATION_PROMPT_B ELSE QUALIFICATION_PROMPT_A

\* get_email_prompt(variant)
get_email_prompt(variant) ==
  IF variant = "B" THEN EMAIL_PROMPT_B ELSE EMAIL_PROMPT_A

-----------------------------------------------------------------------------
(* services/llm_service.py *)

\* The credential LLMService.__init__ treats as not configured
PlaceholderToken ==
  <<"y", "o", "u", "r", "_", "h", "u", "g", "g", "i", "n", "g", "f", "a", "c", "e",
    "_", "t", "o", "k", "e", "n", "_", "h", "e", "r", "e">>

\* the defaults of HF_MODEL, AGENT_MAX_RETRIES and AGENT_TIMEOUT
DefaultModel ==
  <<"m", "e", "t", "a", "-", "l", "l", "a", "m", "a", "/", "L", "l", "a", "m", "a", "-", "3",
    ".", "1", "-", "8", "B", "-", "I", "n", "s", "t", "r", "u", "c", "t">>

DefaultMaxRetries == <<"3">>

DefaultTimeout == <<"3", "0">>

\* a faulty __init__ that takes the placeholder for a credential
LLMServiceInitEmptyOnly(environ) ==
  IF \/ IntInvalid(Get(environ, "AGENT_MAX_RETRIES", DefaultMaxRetries))
     \/ IntInvalid(Get(environ, "AGENT_TIMEOUT", DefaultTimeout))
  THEN ValueError
  ELSE [api_token   |-> Get(environ, "HF_API_TOKEN", <<>>),
        model       |-> Get(environ, "HF_MODEL", DefaultModel),
        max_retries |-> ToInt(Get(environ, "AGENT_MAX_RETRIES", DefaultMaxRetries)),
        timeout     |-> ToInt(Get(environ, "AGENT_TIMEOUT", DefaultTimeout)),
        enabled     |-> Get(environ, "HF_API_TOKEN", <<>>) /= <<>>]

\* LLMService.__init__ in the environment environ, a dict of the variables
\* that are set: the configuration, or the ValueError of int() that leaves
\* the import of the module
LLMServiceInit(environ) ==
  IF \/ IntInvalid(Get(environ, "AGENT_MAX_RETRIES", DefaultMaxRetries))
     \/ IntInvalid(Get(environ, "AGENT_TIMEOUT", DefaultTimeout))
  THEN ValueError
  ELSE [api_token   |-> Get(environ, "HF_API_TOKEN", <<>>),
        model       |-> Get(environ, "HF_MODEL", DefaultModel),
        max_retries |-> ToInt(Get(environ, "AGENT_MAX_RETRIES", DefaultMaxRetries)),
        timeout     |-> ToInt(Get(environ, "AGENT_TIMEOUT", DefaultTimeout)),
        enabled     |-> ~(\/ Get(environ, "HF_API_TOKEN", <<>>) = <<>>
                          \/ Get(environ, "HF_API_TOKEN", <<>>) = PlaceholderToken)]

\* a faulty _fallback_response with no text for a prompt without keyword
FallbackResponseOrNothing(prompt) ==
  LET p == Lower(prompt)
  IN  IF \/ Contains(p, <<"q", "u", "a", "l", "i", "f", "y">>)
         \/ Contains(p, <<"s", "c", "o", "r", "e">>)
      THEN FallbackQualifyText
      ELSE IF \/ Contains(p, <<"e", "m", "a", "i", "l">>)
              \/ Contains(p, <<"m", "e", "s", "s", "a", "g", "e">>)
           THEN FallbackEmailText
           ELSE <<>>

\* LLMService._fallback_response(prompt)
FallbackResponse(prompt) ==
  LET p == Lower(prompt)
  IN  IF \/ Contains(p, <<"q", "u", "a", "l", "i", "f", "y">>)
         \/ Contains(p, <<"s", "c", "o", "r", "e">>)
      THEN FallbackQualifyText
      ELSE IF \/ Contains(p, <<"e", "m", "a", "i", "l">>)
              \/ Contains(p, <<"m", "e", "s", "s", "a", "g", "e">>)
           THEN FallbackEmailText
           ELSE FallbackGenericText

-----------------------------------------------------------------------------
(* agents/sdr_agent.py: the response parser *)

\* r'[Ss]core:\s*(\d+)' matches at position i of s
ScoreMatchAt(s, i) ==
  /\ i <= Len(s)
  /\ s[i] \in {"S", "s"}
  /\ OccursAt(s, <<"c", "o", "r", "e", ":">>, i + 1)
  /\ LET d == SkipWhile(s, i + 6, Whitespace)
     IN  d <= Len(s) /\ s[d] \in DigitSet

\* the least element of a non-empty set of positions
Leftmost(S) == CHOOSE k \in S : \A m \in S : k <= m

\* group(1) of the leftmost match of the score pattern
ScoreGroup(s) ==
  LET i == Leftmost({k \in 1..Len(s) : ScoreMatchAt(s, k)})
      d == SkipWhile(s, i + 6, Whitespace)
  IN  SubSeq(s, d, SkipWhile(s, d, DigitSet) - 1)

\* r'[Rr]easoning:\s*(.+?)(?:\n|$)' with re.DOTALL matches at position i of s:
\* the marker and at least one more character
ReasoningMatchAt(s, i) ==
  /\ i + 10 <= Len(s)
  /\ s[i] \in {"R", "r"}
  /\ OccursAt(s, <<"e", "a", "s", "o", "n", "i", "n", "g", ":">>, i + 1)

\* a faulty group that runs to the end of the text, over the line feeds
ReasoningGroupToEnd(s) ==
  LET i  == Leftmost({k \in 1..Len(s) : ReasoningMatchAt(s, k)})
      q0 == SkipWhile(s, i + 10, Whitespace)
      q  == IF q0 <= Len(s) THEN q0 ELSE Len(s)
  IN  SubSeq(s, q, Len(s))

\* group(1) of the leftmost match of the reasoning pattern: \s* takes the
\* whitespace after the marker (giving one character back when nothing else
\* follows), then the group runs up to the first line feed or the end
ReasoningGroup(s) ==
  LET i  == Leftmost({k \in 1..Len(s) : ReasoningMatchAt(s, k)})
      q0 == SkipWhile(s, i + 10, Whitespace)
      q  == IF q0 <= Len(s) THEN q0 ELSE Len(s)
      e  == CHOOSE k \in q..Len(s) :
              /\ k = Len(s) \/ s[k + 1] = "\n"
              /\ \A m \in q..(k - 1) : s[m + 1] /= "\n"
  IN  SubSeq(s, q, e)

\* a faulty clamp without the ceiling
ClampNoCeiling(n) == IF n < 0 THEN 0 ELSE n

\* max(0, min(100, score))
Clamp(n) == IF n > 100 THEN 100 ELSE IF n < 0 THEN 0 ELSE n

QUALIFIED == <<"Q", "U", "A", "L", "I", "F", "I", "E", "D">>

DISQUALIFIED == <<"D", "I", "S", "Q", "U", "A", "L", "I", "F", "I", "E", "D">>

\* a faulty threshold that leaves 60 out
ThresholdDecisionStrict(score) == IF score > 60 THEN "QUALIFIED" ELSE "DISQUALIFIED"

\* the decision of a text that names none: by the score
ThresholdDecision(score) == IF score >= 60 THEN "QUALIFIED" ELSE "DISQUALIFIED"

\* a faulty decision that looks for QUALIFIED alone first
ParseDecisionQualifiedFirst(response, score) ==
  IF Contains(Upper(response), QUALIFIED) THEN "QUALIFIED"
  ELSE IF Contains(Upper(response), DISQUALIFIED) THEN "DISQUALIFIED"
  ELSE ThresholdDecision(score)

\* the decision: the tokens are searched in response.upper()
ParseDecision(response, score) ==
  IF Contains(Upper(response), QUALIFIED) /\ ~Contains(Upper(response), DISQUALIFIED)
  THEN "QUALIFIED"
  ELSE IF Contains(Upper(response), DISQUALIFIED) THEN "DISQUALIFIED"
  ELSE ThresholdDecision(score)

\* a faulty parser that keeps the whole response as the reasoning when no
\* "Reasoning:" marker is found
ParseQualificationResponseUncut(response) ==
  LET score_match == \E i \in 1..Len(response) : ScoreMatchAt(response, i)
      score == Clamp(IF score_match THEN ParseInt(ScoreGroup(response)) ELSE 50)
      decision == ParseDecision(response, score)
      reasoning ==
        IF \E i \in 1..Len(response) : ReasoningMatchAt(response, i)
        THEN Strip(ReasoningGroup(response)) ELSE response
  IN  IF score_match /\ IntRaises(ScoreGroup(response)) THEN ValueError
      ELSE [score |-> score, decision |-> decision, reasoning |-> reasoning]

\* SDRAgent._parse_qualification_response(response): the ValueError of
\* int(score_match.group(1)) leaves it, there is no handler
ParseQualificationResponse(response) ==
  LET score_match == \E i \in 1..Len(response) : ScoreMatchAt(response, i)
      score == Clamp(IF score_match THEN ParseInt(ScoreGroup(response)) ELSE 50)
      decision == ParseDecision(response, score)
      reasoning ==
        IF \E i \in 1..Len(response) : ReasoningMatchAt(response, i)
        THEN Strip(ReasoningGroup(response)) ELSE Prefix(response, 200)
  IN  IF score_match /\ IntRaises(ScoreGroup(response)) THEN ValueError
      ELSE [score |-> score, decision |-> decision, reasoning |-> reasoning]

-----------------------------------------------------------------------------
(* agents/sdr_agent.py: the escalation rules *)

Competitors ==
  << <<"s", "a", "l", "e", "s", "f", "o", "r", "c", "e">>,
     <<"h", "u", "b", "s", "p", "o", "t">>,
     <<"o", "u", "t", "r", "e", "a", "c", "h">>,
     <<"s", "a", "l", "e", "s", "l", "o", "f", "t">> >>

MissingDataReason ==
  <<"M", "i", "s", "s", "i", "n", "g", " ", "c", "r", "i", "t", "i", "c", "a", "l", " ",
    "l", "e", "a", "d", " ", "d", "a", "t", "a">>

\* f"Competitor '{competitor}' mentioned"
CompetitorReason(competitor) ==
  <<"C", "o", "m", "p", "e", "t", "i", "t", "o", "r", " ", "'">> \o competitor
    \o <<"'", " ", "m", "e", "n", "t", "i", "o", "n", "e", "d">>

\* faulty escalation rules in which the first reason set is kept
CheckEscalationRulesFirstReason(lead_data, decision, reasoning) ==
  LET text_to_check == Lower(Str(Get(lead_data, "company_name", <<>>)) \o <<" ">> \o reasoning)
      hits == {k \in DOMAIN Competitors : Contains(text_to_check, Competitors[k])}
      first == CHOOSE k \in hits : \A m \in hits : k <= m
      missing == ~Truthy(Get1(lead_data, "industry")) \/ ~Truthy(Get1(lead_data, "company_size"))
  IN  [escalated |-> hits /= {} \/ missing,
       reason    |-> IF hits /= {} THEN CompetitorReason(Competitors[first])
                     ELSE IF missing THEN MissingDataReason
                     ELSE None]

\* faulty escalation rules that let a qualified lead with missing data through
CheckEscalationRulesByDecision(lead_data, decision, reasoning) ==
  LET text_to_check == Lower(Str(Get(lead_data, "company_name", <<>>)) \o <<" ">> \o reasoning)
      hits == {k \in DOMAIN Competitors : Contains(text_to_check, Competitors[k])}
      first == CHOOSE k \in hits : \A m \in hits : k <= m
      missing == /\ decision /= "QUALIFIED"
                 /\ \/ ~Truthy(Get1(lead_data, "industry"))
                    \/ ~Truthy(Get1(lead_data, "company_size"))
  IN  [escalated |-> hits /= {} \/ missing,
       reason    |-> IF missing THEN MissingDataReason
                     ELSE IF hits /= {} THEN CompetitorReason(Competitors[first])
                     ELSE None]

\* SDRAgent._check_escalation_rules(lead_data, decision, reasoning)
CheckEscalationRules(lead_data, decision, reasoning) ==
  LET text_to_check == Lower(Str(Get(lead_data, "company_name", <<>>)) \o <<" ">> \o reasoning)
      hits == {k \in DOMAIN Competitors : Contains(text_to_check, Competitors[k])}
      first == CHOOSE k \in hits : \A m \in hits : k <= m
      missing == ~Truthy(Get1(lead_data, "industry")) \/ ~Truthy(Get1(lead_data, "company_size"))
  IN  [escalated |-> hits /= {} \/ missing,
       reason    |-> IF missing THEN MissingDataReason
                     ELSE IF hits /= {} THEN CompetitorReason(Competitors[first])
                     ELSE None]

-----------------------------------------------------------------------------
(* agents/sdr_agent.py: the governance rules *)

PricingKeywords ==
  << <<"p", "r", "i", "c", "e">>, <<"p", "r", "i", "c", "i", "n", "g">>, <<"c", "o", "s", "t">>,
     <<"$">>, <<"d", "o", "l", "l", "a", "r">>, <<"p", "a", "y", "m", "e", "n", "t">>,
     <<"f", "e", "e">> >>

PricingIssue ==
  [rule |-> "no_pricing_discussion", severity |-> "critical",
   message |-> "Email discusses pricing without approval"]

LengthIssue ==
  [rule |-> "max_length", severity |-> "warning",
   message |-> "Email exceeds recommended length"]

SubjectIssue ==
  [rule |-> "missing_subject", severity |-> "warning",
   message |-> "Email missing subject line"]

\* the recommended length of an email
MaxEmailLength == 1000

\* a faulty pricing rule that appends one issue per matching keyword
PricingRulePerKeyword(email_content) ==
  LET email_lower == Lower(email_content)
      hit(k) == Contains(email_lower, PricingKeywords[k])
      F[k \in 0..Len(PricingKeywords)] ==
        IF k = 0 THEN <<>> ELSE F[k - 1] \o (IF hit(k) THEN <<PricingIssue>> ELSE <<>>)
  IN  F[Len(PricingKeywords)]

\* the issues list after the pricing rule
PricingRule(email_content) ==
  LET email_lower == Lower(email_content)
  IN  IF \E k \in DOMAIN PricingKeywords : Contains(email_lower, PricingKeywords[k])
      THEN <<PricingIssue>> ELSE <<>>

\* what the length rule appends
LengthRule(email_content) ==
  IF Len(email_content) > MaxEmailLength THEN <<LengthIssue>> ELSE <<>>

\* the characters each character of r'subject:' matches under re.IGNORECASE
SubjectPattern ==
  << {"s", "S", "U+017F"}, {"u", "U"}, {"b", "B"}, {"j", "J"}, {"e", "E"}, {"c", "C"},
     {"t", "T"}, {":"} >>

\* r'subject:' with re.IGNORECASE matches at position i of s
SubjectMatchAt(s, i) ==
  /\ i + Len(SubjectPattern) - 1 <= Len(s)
  /\ \A j \in 1..Len(SubjectPattern) : s[i + j - 1] \in SubjectPattern[j]

\* what the subject rule appends: re.search(r'subject:', email_content, re.IGNORECASE)
SubjectRule(email_content) ==
  IF ~\E i \in 1..Len(email_content) : SubjectMatchAt(email_content, i)
  THEN <<SubjectIssue>> ELSE <<>>

\* a faulty approval that any issue blocks
ApprovedNoIssue(issues) == Len(issues) = 0

\* approved: no issue of the list is critical
Approved(issues) == Cardinality({i \in DOMAIN issues : issues[i].severity = "critical"}) = 0

\* SDRAgent._check_governance(email_content)
CheckGovernance(email_content) ==
  LET issues == PricingRule(email_content) \o LengthRule(email_content)
                  \o SubjectRule(email_content)
  IN  [approved |-> Approved(issues), issues |-> issues]

-----------------------------------------------------------------------------
(* agents/sdr_agent.py: the rule-based fallbacks *)

MidSizes == { <<"5", "0", "-", "5", "0", "0">>, <<"5", "0", "0", "-", "2", "0", "0", "0">> }

PreferredIndustries ==
  { <<"S", "a", "a", "S">>, <<"F", "i", "n", "a", "n", "c", "e">>,
    <<"H", "e", "a", "l", "t", "h", "c", "a", "r", "e">>,
    <<"T", "e", "c", "h", "n", "o", "l", "o", "g", "y">> }

FallbackReasoning ==
  <<"R", "u", "l", "e", "-", "b", "a", "s", "e", "d", " ", "q", "u", "a", "l", "i", "f", "i",
    "c", "a", "t", "i", "o", "n", " ", "(", "L", "L", "M", " ", "u", "n", "a", "v", "a", "i",
    "l", "a", "b", "l", "e", ")">>

\* a faulty fallback decision that leaves 60 out
FallbackDecisionStrict(score) == IF score > 60 THEN "QUALIFIED" ELSE "DISQUALIFIED"

\* the decision of SDRAgent._fallback_qualification
FallbackDecision(score) == IF score >= 60 THEN "QUALIFIED" ELSE "DISQUALIFIED"

\* the score of SDRAgent._fallback_qualification
FallbackScore(lead_data) ==
  50 + (IF Get1(lead_data, "company_size") \in MidSizes THEN 20 ELSE 0)
     + (IF Get1(lead_data, "industry") \in PreferredIndustries THEN 20 ELSE 0)
     + (IF Truthy(Get1(lead_data, "contact_name")) /\ Truthy(Get1(lead_data, "contact_email"))
        THEN 10 ELSE 0)

\* SDRAgent._fallback_qualification(lead_data); the timestamp is left out
FallbackQualification(variant, lead_data) ==
  LET score == FallbackScore(lead_data)
      decision == FallbackDecision(score)
  IN  [qualified |-> decision = "QUALIFIED",
       score     |-> score,
       reasoning |-> FallbackReasoning,
       escalated |-> FALSE,
       variant   |-> variant]

\* SDRAgent._fallback_email(lead_data)
FallbackEmail(lead_data) ==
  Format(FallbackEmailTemplate,
         [f \in {"{company}", "{name}", "{industry}"} |->
            CASE f = "{company}"  -> Str(Get(lead_data, "company_name",
                                         <<"y", "o", "u", "r", " ", "c", "o", "m", "p", "a", "n", "y">>))
              [] f = "{name}"     -> Str(Get(lead_data, "contact_name", <<"t", "h", "e", "r", "e">>))
              [] f = "{industry}" -> Str(Get(lead_data, "industry",
                                         <<"y", "o", "u", "r", " ", "i", "n", "d", "u", "s", "t", "r", "y">>))])

-----------------------------------------------------------------------------
(* agents/sdr_agent.py: the two operations, around the call of the oracle *)

Unknown == <<"U", "n", "k", "n", "o", "w", "n">>

UnknownEmail ==
  <<"u", "n", "k", "n", "o", "w", "n", "@", "e", "x", "a", "m", "p", "l", "e", ".", "c", "o", "m">>

\* qualify_lead: the prompt handed to the oracle
QualificationPrompt(variant, lead_data) ==
  Format(get_qualification_prompt(variant),
         [f \in {"{company_name}", "{industry}", "{company_size}", "{contact_name}",
                 "{contact_email}"} |->
            CASE f = "{company_name}"  -> Str(Get(lead_data, "company_name", Unknown))
              [] f = "{industry}"      -> Str(Get(lead_data, "industry", Unknown))
              [] f = "{company_size}"  -> Str(Get(lead_data, "company_size", Unknown))
              [] f = "{contact_name}"  -> Str(Get(lead_data, "contact_name", Unknown))
              [] f = "{contact_email}" -> Str(Get(lead_data, "contact_email", UnknownEmail))])

\* generate_email: the prompt handed to the oracle
EmailPrompt(variant, lead_data, qualification_score) ==
  Format(get_email_prompt(variant),
         [f \in {"{company_name}", "{industry}", "{contact_name}", "{score}"} |->
            CASE f = "{company_name}" -> Str(Get(lead_data, "company_name", Unknown))
              [] f = "{industry}"     -> Str(Get(lead_data, "industry", Unknown))
              [] f = "{contact_name}" -> Str(Get(lead_data, "contact_name", <<"t", "h", "e", "r", "e">>))
              [] f = "{score}"        -> IntToStr(qualification_score)])

\* a faulty qualify_lead in which an escalation withdraws the qualification
QualifyLeadUnlessEscalated(variant, lead_data, response) ==
  IF ~Truthy(response) THEN FallbackQualification(variant, lead_data)
  ELSE LET p == ParseQualificationResponse(response)
           e == CheckEscalationRules(lead_data, p.decision, p.reasoning)
       IN  IF IsError(p) THEN p
           ELSE [qualified         |-> p.decision = "QUALIFIED" /\ ~e.escalated,
                 score             |-> p.score,
                 reasoning         |-> p.reasoning,
                 escalated         |-> e.escalated,
                 escalation_reason |-> e.reason,
                 variant           |-> variant]

\* what qualify_lead returns once the response is parsed as p; an exception
\* of the parser leaves it
QualifyLeadResult(variant, lead_data, p) ==
  IF IsError(p) THEN p
  ELSE LET e == CheckEscalationRules(lead_data, p.decision, p.reasoning)
       IN  [qualified         |-> p.decision = "QUALIFIED",
            score             |-> p.score,
            reasoning         |-> p.reasoning,
            escalated         |-> e.escalated,
            escalation_reason |-> e.reason,
            variant           |-> variant]

\* qualify_lead, from the oracle's response on, without the timestamp
QualifyLead(variant, lead_data, response) ==
  IF ~Truthy(response) THEN FallbackQualification(variant, lead_data)
  ELSE QualifyLeadResult(variant, lead_data, ParseQualificationResponse(response))

\* a faulty generate_email that never marks its result escalated
GenerateEmailUnmarked(variant, lead_data, response) ==
  LET email_content == IF ~Truthy(response) THEN FallbackEmail(lead_data) ELSE response
      g == CheckGovernance(email_content)
  IN  [email_content       |-> email_content,
       governance_approved |-> g.approved,
       governance_issues   |-> g.issues,
       variant             |-> variant]

\* generate_email, from the oracle's response on, without the timestamp
GenerateEmail(variant, lead_data, response) ==
  LET email_content == IF ~Truthy(response) THEN FallbackEmail(lead_data) ELSE response
      g == CheckGovernance(email_content)
      r == [email_content       |-> email_content,
            governance_approved |-> g.approved,
            governance_issues   |-> g.issues,
            variant             |-> variant]
  IN  IF ~g.approved THEN [k \in DOMAIN r \cup {"escalated"} |->
                             IF k = "escalated" THEN TRUE ELSE r[k]]
      ELSE r

\* the result with its 'timestamp': datetime.utcnow().isoformat() entry
Stamped(r, now) ==
  [k \in DOMAIN r \cup {"timestamp"} |-> IF k = "timestamp" THEN now ELSE r[k]]

-----------------------------------------------------------------------------
(* database.py: the SQLite database and the transactions of get_db.  The   *)
(* data are the committed rows of the tables, each table the sequence of   *)
(* its rows in the order of their ids, and the AUTOINCREMENT counters of   *)
(* sqlite_sequence.  A statement is a record: its op and its parameters.   *)
(* A fault names what the environment makes raise inside a with get_db()   *)
(* block: "connect" (sqlite3.connect), the op of a statement (its          *)
(* conn.execute) or "commit"; "none" raises nothing.                       *)
(*                                                                         *)
(* An int that a request carries (a path parameter, an element of          *)
(* lead_ids) has no bound in Python.  It is given as its decimal text      *)
(* str(n), and so is every int parameter of a statement; the ids of the    *)
(* rows are integers.                                                      *)

\* the int n does not fit an SQLite INTEGER, -2 ** 63 .. 2 ** 63 - 1: sqlite3
\* raises OverflowError when it binds it
IntOverflows(n) ==
  LET digits == IF n[1] = "-" THEN Tail(n) ELSE n
      limit  == <<"9", "2", "2", "3", "3", "7", "2", "0", "3", "6", "8", "5", "4", "7", "7",
                  "5", "8", "0", IF n[1] = "-" THEN "8" ELSE "7">>
  IN  \/ Len(digits) > Len(limit)
      \/ /\ Len(digits) = Len(limit)
         /\ \E i \in 1..Len(limit) :
              /\ DigitValue(digits[i]) > DigitValue(limit[i])
              /\ \A j \in 1..(i - 1) : digits[j] = limit[j]

\* the integer whose decimal text is n
IntOf(n) == IF n[1] = "-" THEN 0 - ParseInt(Tail(n)) ELSE ParseInt(n)

\* the int n is the id of the row
IsId(row, n) == IntToStr(row.id) = n

\* the most host parameters a statement may have (SQLITE_MAX_VARIABLE_NUMBER
\* of the SQLite library of the interpreter)
SQLITE_MAX_VARIABLE_NUMBER == 250000

\* a str parameter that sqlite3 cannot encode in UTF-8: it holds a surrogate
HasSurrogate(v) == \E i \in DOMAIN v : v[i] \in Surrogates

\* the int parameters of a statement that come from a request, in the order
\* of their placeholders; the score is a clamped one
IntParameters(st) ==
  CASE st.op \in {"select_lead", "delete_lead", "update_lead", "select_campaign",
                  "update_campaign"} -> <<st.id>>
    [] st.op = "select_leads" -> st.ids
    [] st.op = "insert_interaction" ->
         IF "campaign_id" \in DOMAIN st.row THEN <<st.row.lead_id, st.row.campaign_id>>
         ELSE <<st.row.lead_id>>
    [] OTHER -> <<>>

\* the parameters of a statement that are a str or None and come from a
\* request or from the oracle; none of them stands before an int parameter
TextParameters(st) ==
  CASE st.op = "insert_lead" ->
         {st.row.company_name, st.row.industry, st.row.company_size, st.row.contact_email,
          st.row.contact_name}
    [] st.op = "insert_interaction" -> {Get1(st.row, "email_content"), st.row.reasoning}
    [] st.op = "insert_campaign" -> {st.row.name, st.row.prompt_template}
    [] OTHER -> {}

\* the columns declared NOT NULL that the statement sets from a parameter
NotNullParameters(st) ==
  CASE st.op = "insert_lead" -> {st.row.company_name, st.row.contact_email}
    [] st.op = "insert_campaign" -> {st.row.name}
    [] OTHER -> {}

\* what conn.execute(st) raises, "none" when it returns: OperationalError
\* when the statement has too many placeholders, OverflowError or
\* UnicodeEncodeError when a parameter cannot be bound, the fault of the
\* environment, or IntegrityError when a NOT NULL column is given None
StatementRaises(st, fault) ==
  IF Len(IntParameters(st)) > SQLITE_MAX_VARIABLE_NUMBER THEN "OperationalError"
  ELSE IF \E i \in DOMAIN IntParameters(st) : IntOverflows(IntParameters(st)[i])
  THEN "OverflowError"
  ELSE IF \E v \in TextParameters(st) : HasSurrogate(v) THEN "UnicodeEncodeError"
  ELSE IF st.op = fault THEN fault
  ELSE IF None \in NotNullParameters(st) THEN "IntegrityError"
  ELSE "none"

\* the row of a table with the id, None when there is none (fetchone)
SelectById(table, id) ==
  IF \E i \in DOMAIN table : IsId(table[i], id)
  THEN table[CHOOSE i \in DOMAIN table : IsId(table[i], id)]
  ELSE None

\* cursor.rowcount of an UPDATE or DELETE ... WHERE id = ?
RowCount(table, id) == Cardinality({i \in DOMAIN table : IsId(table[i], id)})

\* conn.execute of one statement that does not raise, on the connection's
\* view of the data; a SELECT leaves the data as they are
Execute(data, st) ==
  CASE st.op = "insert_lead" ->
         [data EXCEPT !.leads = Append(data.leads,
                                       [id |-> data.sqlite_sequence.leads + 1,
                                        company_name |-> st.row.company_name,
                                        industry |-> st.row.industry,
                                        company_size |-> st.row.company_size,
                                        contact_email |-> st.row.contact_email,
                                        contact_name |-> st.row.contact_name,
                                        status |-> "new", score |-> 0]),
                      !.sqlite_sequence.leads = data.sqlite_sequence.leads + 1]
    [] st.op = "delete_lead" ->
         [data EXCEPT !.leads = SelectSeq(data.leads, LAMBDA row : ~IsId(row, st.id))]
    [] st.op = "update_lead" ->
         IF RowCount(data.leads, st.id) = 0 THEN data
         ELSE [data EXCEPT !.leads[CHOOSE i \in DOMAIN data.leads : IsId(data.leads[i], st.id)] =
                             [@ EXCEPT !.status = st.status, !.score = st.score]]
    [] st.op = "insert_interaction" ->
         [data EXCEPT !.agent_interactions =
                        Append(data.agent_interactions,
                               [lead_id |-> IntOf(st.row.lead_id),
                                campaign_id |-> IF "campaign_id" \in DOMAIN st.row
                                                THEN IntOf(st.row.campaign_id) ELSE None,
                                action_type |-> st.row.action_type,
                                decision |-> st.row.decision,
                                email_content |-> Get1(st.row, "email_content"),
                                reasoning |-> st.row.reasoning,
                                escalated |-> st.row.escalated])]
    [] st.op = "insert_campaign" ->
         [data EXCEPT !.campaigns = Append(data.campaigns,
                                           [id |-> data.sqlite_sequence.campaigns + 1,
                                            name |-> st.row.name,
                                            prompt_template |-> st.row.prompt_template,
                                            prompt_variant |-> st.row.prompt_variant,
                                            status |-> "draft"]),
                      !.sqlite_sequence.campaigns = data.sqlite_sequence.campaigns + 1]
    [] st.op = "update_campaign" ->
         IF RowCount(data.campaigns, st.id) = 0 THEN data
         ELSE [data EXCEPT !.campaigns[CHOOSE i \in DOMAIN data.campaigns :
                                         IsId(data.campaigns[i], st.id)].status = st.status]
    [] OTHER -> data

\* the connection's view once the statements ran, up to the one that raises
RECURSIVE Executed(_, _, _)
Executed(data, statements, fault) ==
  IF statements = <<>> \/ StatementRaises(Head(statements), fault) /= "none" THEN data
  ELSE Executed(Execute(data, Head(statements)), Tail(statements), fault)

\* what leaves the with block over the statements, "none" when it ends: the
\* exception of the connection, of the first statement that raises or of the
\* commit
BlockRaises(statements, fault) ==
  LET raising == {i \in DOMAIN statements : StatementRaises(statements[i], fault) /= "none"}
  IN  IF fault = "connect" THEN "connect"
      ELSE IF raising /= {}
      THEN StatementRaises(statements[CHOOSE i \in raising : \A j \in raising : i <= j], fault)
      ELSE IF fault = "commit" THEN "commit"
      ELSE "none"

\* a faulty get_db whose connection commits every statement as it runs
GetDbAutocommit(data, statements, fault) ==
  [data   |-> IF fault = "connect" THEN data ELSE Executed(data, statements, fault),
   raised |-> BlockRaises(statements, fault)]

\* with get_db() as conn over the statements: commit when the block ends,
\* rollback and re-raise when it raises; the committed data and what it raised
GetDb(data, statements, fault) ==
  IF BlockRaises(statements, fault) /= "none"
  THEN [data |-> data, raised |-> BlockRaises(statements, fault)]
  ELSE [data |-> Executed(data, statements, fault), raised |-> "none"]

-----------------------------------------------------------------------------
(* The file of import_leads: its bytes, decoded as UTF-8 and read by       *)
(* csv.DictReader.  A byte is an integer of 0..255.                        *)

\* the characters of the code points 32 to 126
AsciiPrintable ==
  <<" ", "!", "\"", "#", "$", "%", "&", "'", "(", ")", "*", "+", ",", "-", ".", "/", "0",
    "1", "2", "3", "4", "5", "6", "7", "8", "9", ":", ";", "<", "=", ">", "?", "@", "A",
    "B", "C", "D", "E", "F", "G", "H", "I", "J", "K", "L", "M", "N", "O", "P", "Q", "R",
    "S", "T", "U", "V", "W", "X", "Y", "Z", "[", "\\", "]", "^", "_", "U+0060", "a", "b",
    "c", "d", "e", "f", "g", "h", "i", "j", "k", "l", "m", "n", "o", "p", "q", "r", "s",
    "t", "u", "v", "w", "x", "y", "z", "{", "|", "}", "~">>

\* n in hexadecimal, on width digits at least
RECURSIVE Hex(_, _)
Hex(n, width) ==
  LET digits == <<"0", "1", "2", "3", "4", "5", "6", "7", "8", "9", "A", "B", "C", "D", "E",
                  "F">>
  IN  IF n < 16 /\ width <= 1 THEN digits[n + 1]
      ELSE Hex(n \div 16, width - 1) \o digits[(n % 16) + 1]

\* chr(n) as an element of a text
Chr(n) ==
  IF n = 9 THEN "\t"
  ELSE IF n = 10 THEN "\n"
  ELSE IF n = 12 THEN "\f"
  ELSE IF n = 13 THEN "\r"
  ELSE IF n >= 32 /\ n <= 126 THEN AsciiPrintable[n - 31]
  ELSE "U+" \o Hex(n, 4)

\* the number of bytes of the UTF-8 sequence that starts at byte i of
\* content, 0 when none does: the shortest form of a code point up to
\* U+10FFFF that is no surrogate
Utf8Width(content, i) ==
  LET b == content[i]
      at(k) == IF i + k <= Len(content) THEN content[i + k] ELSE 0
      cont(k) == at(k) >= 128 /\ at(k) <= 191
  IN  IF b < 128 THEN 1
      ELSE IF b >= 194 /\ b <= 223 /\ cont(1) THEN 2
      ELSE IF /\ \/ b = 224 /\ at(1) >= 160 /\ at(1) <= 191
                 \/ b >= 225 /\ b <= 239 /\ b /= 237 /\ cont(1)
                 \/ b = 237 /\ at(1) >= 128 /\ at(1) <= 159
              /\ cont(2)
      THEN 3
      ELSE IF /\ \/ b = 240 /\ at(1) >= 144 /\ at(1) <= 191
                 \/ b >= 241 /\ b <= 243 /\ cont(1)
                 \/ b = 244 /\ at(1) >= 128 /\ at(1) <= 143
              /\ cont(2) /\ cont(3)
      THEN 4
      ELSE 0

\* the code point of the sequence of width bytes at byte i
Utf8CodePoint(content, i, width) ==
  CASE width = 1 -> content[i]
    [] width = 2 -> (content[i] - 192) * 64 + (content[i + 1] - 128)
    [] width = 3 -> (content[i] - 224) * 4096 + (content[i + 1] - 128) * 64
                      + (content[i + 2] - 128)
    [] width = 4 -> (content[i] - 240) * 262144 + (content[i + 1] - 128) * 4096
                      + (content[i + 2] - 128) * 64 + (content[i + 3] - 128)

\* the positions of the bytes that begin a sequence, in order: those that
\* are no continuation byte
Utf8Starts(content) ==
  SelectSeq([i \in 1..Len(content) |-> i],
            LAMBDA i : content[i] < 128 \/ content[i] > 191)

\* content.decode('utf-8') returns: the content is a chain of well-formed
\* sequences, each ending where the next begins
Utf8Valid(content) ==
  LET starts == Utf8Starts(content)
  IN  /\ content /= <<>> => (starts /= <<>> /\ starts[1] = 1)
      /\ \A k \in DOMAIN starts :
           /\ Utf8Width(content, starts[k]) > 0
           /\ starts[k] + Utf8Width(content, starts[k])
                = (IF k < Len(starts) THEN starts[k + 1] ELSE Len(content) + 1)

\* content.decode('utf-8') of well-formed content: a character per sequence
Utf8Decode(content) ==
  LET starts == Utf8Starts(content)
  IN  [k \in DOMAIN starts |->
         Chr(Utf8CodePoint(content, starts[k], Utf8Width(content, starts[k])))]

\* the longest field the csv reader accepts (csv.field_size_limit())
CsvFieldSizeLimit == 131072

\* parse_save_field: the field ends
SaveField(p, state) ==
  [p EXCEPT !.fields = Append(p.fields, p.field), !.field = <<>>, !.state = state]

\* parse_add_char: csv.Error on a field longer than the limit
AddChar(p, c, state) ==
  IF Len(p.field) >= CsvFieldSizeLimit THEN [p EXCEPT !.state = "Error"]
  ELSE [p EXCEPT !.field = Append(p.field, c), !.state = state]

\* parse_process_char of the excel dialect on the character c: the delimiter
\* is the comma, the quote is doubled inside a quoted field, and a character
\* after the end of a line that the file did not split at is csv.Error
CsvChar(p, c) ==
  IF p.state = "START_RECORD" /\ c \in {"\n", "\r"} THEN [p EXCEPT !.state = "EAT_CRNL"]
  ELSE IF p.state \in {"START_RECORD", "START_FIELD"}
  THEN IF c \in {"\n", "\r"} THEN SaveField(p, "EAT_CRNL")
       ELSE IF c = "\"" THEN [p EXCEPT !.state = "IN_QUOTED_FIELD"]
       ELSE IF c = "," THEN SaveField(p, "START_FIELD")
       ELSE AddChar(p, c, "IN_FIELD")
  ELSE IF p.state = "IN_FIELD"
  THEN IF c \in {"\n", "\r"} THEN SaveField(p, "EAT_CRNL")
       ELSE IF c = "," THEN SaveField(p, "START_FIELD")
       ELSE AddChar(p, c, "IN_FIELD")
  ELSE IF p.state = "IN_QUOTED_FIELD"
  THEN IF c = "\"" THEN [p EXCEPT !.state = "QUOTE_IN_QUOTED_FIELD"]
       ELSE AddChar(p, c, "IN_QUOTED_FIELD")
  ELSE IF p.state = "QUOTE_IN_QUOTED_FIELD"
  THEN IF c = "\"" THEN AddChar(p, c, "IN_QUOTED_FIELD")
       ELSE IF c = "," THEN SaveField(p, "START_FIELD")
       ELSE IF c \in {"\n", "\r"} THEN SaveField(p, "EAT_CRNL")
       ELSE AddChar(p, c, "IN_FIELD")
  ELSE IF c \in {"\n", "\r"} THEN p
  ELSE [p EXCEPT !.state = "Error"]

\* the record is complete: its fields are the next row
CsvRow(p) ==
  [p EXCEPT !.rows = Append(p.rows, p.fields), !.fields = <<>>, !.state = "START_RECORD"]

\* parse_process_char at the end of a line: the record is complete unless a
\* quoted field is open
CsvEndOfLine(p) ==
  IF p.state = "IN_QUOTED_FIELD" THEN p
  ELSE IF p.state \in {"START_FIELD", "IN_FIELD", "QUOTE_IN_QUOTED_FIELD"}
  THEN CsvRow(SaveField(p, "START_RECORD"))
  ELSE CsvRow(p)

\* the reader over the characters from..to of the text, one after the other,
\* from the state p on; the lines are those of io.StringIO, which end at a
\* line feed, and after csv.Error the reader reads no more
RECURSIVE CsvRead(_, _, _, _)
CsvRead(text, from, to, p) ==
  IF from > to \/ p.state = "Error" THEN p
  ELSE IF from = to
  THEN LET taken == CsvChar(p, text[from])
       IN  IF taken.state /= "Error" /\ (text[from] = "\n" \/ from = Len(text))
           THEN CsvEndOfLine(taken)
           ELSE taken
  ELSE LET half == CsvRead(text, from, (from + to) \div 2, p)
       IN  IF half.state = "Error" THEN half
           ELSE CsvRead(text, ((from + to) \div 2) + 1, to, half)

\* csv.reader over the text, from the state before a record on: its rows, the
\* quoted field the text ends in being closed, or csv.Error
CsvReader(text) ==
  LET p == CsvRead(text, 1, Len(text),
                   [state |-> "START_RECORD", field |-> <<>>, fields |-> <<>>, rows |-> <<>>])
  IN  IF p.state = "IN_QUOTED_FIELD" THEN CsvRow(SaveField(p, "START_RECORD")) ELSE p

\* the rows csv.DictReader makes dicts of: those after the first, which
\* holds the field names, but for the rows without a field
DictRows(rows) == SelectSeq(Tail(rows), LAMBDA row : row /= <<>>)

\* row.get(key, '') of the dict of a row: the field under the last of the
\* names equal to key, None when the row ends before such a name, and ''
\* when no name is key
DictGet(fieldnames, row, key) ==
  LET named == {i \in DOMAIN fieldnames : fieldnames[i] = key}
  IN  IF \E i \in named : i > Len(row) THEN None
      ELSE IF named = {} THEN <<>>
      ELSE row[CHOOSE i \in named : \A j \in named : j <= i]

-----------------------------------------------------------------------------
(* routers/leads.py: the handlers of the leads.  A handler that waits for  *)
(* the oracle between two with get_db() blocks is given block by block:    *)
(* another request may be served between them.                             *)

\* create_lead(lead): the INSERT of the row and the row as the response
CreateLead(data, lead, fault) ==
  LET block == GetDb(data, << [op |-> "insert_lead", row |-> lead] >>, fault)
  IN  IF block.raised /= "none"
      THEN [data |-> block.data, response |-> [status_code |-> 500]]
      ELSE [data     |-> block.data,
            response |-> [status_code |-> 200, body |-> block.data.leads[Len(block.data.leads)]]]

\* the loop of import_leads over the rows of the file from row_num on: an
\* INSERT that raises is recorded and the loop goes on
RECURSIVE ImportRows(_, _, _, _, _)
ImportRows(data, fieldnames, rows, fault, row_num) ==
  IF rows = <<>> THEN [data |-> data, imported |-> 0, errors |-> <<>>]
  ELSE LET get(key) == DictGet(fieldnames, Head(rows), key)
           st == [op  |-> "insert_lead",
                  row |-> [company_name  |-> get(<<"c", "o", "m", "p", "a", "n", "y", "_", "n",
                                                   "a", "m", "e">>),
                           industry      |-> get(<<"i", "n", "d", "u", "s", "t", "r", "y">>),
                           company_size  |-> get(<<"c", "o", "m", "p", "a", "n", "y", "_", "s",
                                                   "i", "z", "e">>),
                           contact_email |-> get(<<"c", "o", "n", "t", "a", "c", "t", "_", "e",
                                                   "m", "a", "i", "l">>),
                           contact_name  |-> get(<<"c", "o", "n", "t", "a", "c", "t", "_", "n",
                                                   "a", "m", "e">>)]]
           raised == StatementRaises(st, fault)
           rest == ImportRows(IF raised = "none" THEN Execute(data, st) ELSE data,
                              fieldnames, Tail(rows), fault, row_num + 1)
       IN  [data     |-> rest.data,
            imported |-> rest.imported + (IF raised = "none" THEN 1 ELSE 0),
            errors   |-> (IF raised = "none" THEN <<>>
                          ELSE << [row |-> row_num, error |-> raised] >>) \o rest.errors]

\* the longest list of errors import_leads returns
ImportErrorsLimit == 10

\* file.filename.endswith('.csv')
IsCsvName(filename) ==
  OccursAt(filename, <<".", "c", "s", "v">>, Len(filename) - 3)

\* what import_leads does with the rows the reader read, in its with block
ImportRead(data, rows, fault) ==
  LET loop == ImportRows(data, IF rows = <<>> THEN <<>> ELSE Head(rows),
                         IF rows = <<>> THEN <<>> ELSE DictRows(rows), fault, 2)
  IN  IF fault \in {"connect", "commit"}
      THEN [data |-> data, response |-> [status_code |-> 500]]
      ELSE [data     |-> loop.data,
            response |-> [status_code |-> 200, imported |-> loop.imported,
                          errors |-> Prefix(loop.errors, ImportErrorsLimit)]]

\* import_leads(file) from the bytes that file.read() returned on, the name
\* of the file having been checked before the read: the UnicodeDecodeError
\* of content.decode and the csv.Error of the reader are raised outside the
\* try of the loop and leave the handler, the latter through get_db, which
\* rolls back the rows inserted before it
ImportLeads(data, content, fault) ==
  IF ~Utf8Valid(content) THEN [data |-> data, response |-> [status_code |-> 500]]
  ELSE IF CsvReader(Utf8Decode(content)).state = "Error"
  THEN [data |-> data, response |-> [status_code |-> 500]]
  ELSE ImportRead(data, CsvReader(Utf8Decode(content)).rows, fault)

\* delete_lead(lead_id)
DeleteLead(data, lead_id, fault) ==
  LET st == [op |-> "delete_lead", id |-> lead_id]
      block == GetDb(data, <<st>>, fault)
  IN  IF fault = "connect" \/ StatementRaises(st, fault) /= "none"
      THEN [data |-> data, response |-> [status_code |-> 500]]
      ELSE IF RowCount(data.leads, lead_id) = 0
      THEN [data |-> data, response |-> [status_code |-> 404]]
      ELSE IF block.raised /= "none"
      THEN [data |-> block.data, response |-> [status_code |-> 500]]
      ELSE [data |-> block.data, response |-> [status_code |-> 200]]

\* the first with block of qualify_lead(lead_id, request): the row of the
\* lead as a dict, or the response that ends the request
SelectLead(data, lead_id, fault) ==
  IF \/ fault = "connect"
     \/ StatementRaises([op |-> "select_lead", id |-> lead_id], fault) /= "none"
  THEN [status_code |-> 500]
  ELSE IF RowCount(data.leads, lead_id) = 0 THEN [status_code |-> 404]
  ELSE IF fault = "commit" THEN [status_code |-> 500]
  ELSE [status_code |-> 200, lead_data |-> SelectById(data.leads, lead_id)]

\* a faulty handler that stores and returns the email without the verdict of
\* the governance rules
QualifyLeadEndpointUngoverned(lead_id, qualification, email_result) ==
  IF IsError(qualification) THEN [status_code |-> 500]
  ELSE LET requested == qualification.qualified /\ ~qualification.escalated
           email_content == IF requested THEN email_result.email_content ELSE None
           new_status == IF qualification.qualified THEN "qualified" ELSE "disqualified"
       IN  [status_code     |-> 200,
            email_requested |-> requested,
            lead_update     |-> [op |-> "update_lead", id |-> lead_id, status |-> new_status,
                                 score |-> qualification.score],
            interaction     |-> [lead_id |-> lead_id, action_type |-> "qualification",
                                 decision |-> new_status, email_content |-> email_content,
                                 reasoning |-> qualification.reasoning,
                                 escalated |-> qualification.escalated],
            response        |-> [lead_id |-> lead_id, qualified |-> qualification.qualified,
                                 score |-> qualification.score, reasoning |-> qualification.reasoning,
                                 email_content |-> email_content,
                                 escalated |-> qualification.escalated]]

\* what qualify_lead does with the qualification of the lead and the email
\* written for it, between its two with blocks: whether generate_email was
\* called, the UPDATE of the lead, the row to INSERT into agent_interactions
\* and the response body; an exception of agent.qualify_lead leaves the
\* handler before it writes anything
QualifyLeadEndpointResult(lead_id, qualification, email_result) ==
  IF IsError(qualification) THEN [status_code |-> 500]
  ELSE LET requested == qualification.qualified /\ ~qualification.escalated
           delivered == requested /\ email_result.governance_approved
           rejected == requested /\ ~email_result.governance_approved
           email_content == IF delivered THEN email_result.email_content ELSE None
           escalated == IF rejected THEN TRUE ELSE qualification.escalated
           new_status == IF qualification.qualified THEN "qualified" ELSE "disqualified"
       IN  [status_code     |-> 200,
            email_requested |-> requested,
            lead_update     |-> [op |-> "update_lead", id |-> lead_id, status |-> new_status,
                                 score |-> qualification.score],
            interaction     |-> [lead_id |-> lead_id, action_type |-> "qualification",
                                 decision |-> new_status, email_content |-> email_content,
                                 reasoning |-> qualification.reasoning, escalated |-> escalated],
            response        |-> [lead_id |-> lead_id, qualified |-> qualification.qualified,
                                 score |-> qualification.score, reasoning |-> qualification.reasoning,
                                 email_content |-> email_content, escalated |-> escalated]]

\* the second with block of qualify_lead and its return: the UPDATE and the
\* INSERT of the plan in one transaction; the committed data and the result
\* of the handler, which is the status 500 alone when the block raises
StoreQualification(data, plan, fault) ==
  IF plan.status_code /= 200 THEN [data |-> data, result |-> plan]
  ELSE LET block == GetDb(data,
                          << plan.lead_update,
                             [op |-> "insert_interaction", row |-> plan.interaction] >>,
                          fault)
       IN  IF block.raised /= "none"
           THEN [data |-> block.data, result |-> [status_code |-> 500]]
           ELSE [data |-> block.data, result |-> plan]

\* qualify_lead from the call of the agent on: the oracle answers
\* qualify_text to qualify_lead and email_text to generate_email for the row
\* lead_data read in the first block
QualifyLeadEndpoint(data, lead_id, lead_data, use_variant, qualify_text, email_text, fault) ==
  StoreQualification(data,
                     QualifyLeadEndpointResult(lead_id,
                                               QualifyLead(use_variant, lead_data, qualify_text),
                                               GenerateEmail(use_variant, lead_data, email_text)),
                     fault)

-----------------------------------------------------------------------------
(* routers/campaigns.py: the handlers of the campaigns.  run_campaign is   *)
(* given block by block: the selection, then each lead in a transaction of *)
(* its own after the oracle answered for it.                               *)

\* create_campaign(campaign)
CreateCampaign(data, campaign, fault) ==
  LET block == GetDb(data, << [op |-> "insert_campaign", row |-> campaign] >>, fault)
  IN  IF block.raised /= "none"
      THEN [data |-> block.data, response |-> [status_code |-> 500]]
      ELSE [data     |-> block.data,
            response |-> [status_code |-> 200,
                          body |-> block.data.campaigns[Len(block.data.campaigns)]]]

\* the values update_campaign_status accepts
ValidStatuses == {"draft", "active", "paused", "completed"}

\* update_campaign_status(campaign_id, status)
UpdateCampaignStatus(data, campaign_id, status, fault) ==
  LET st == [op |-> "update_campaign", id |-> campaign_id, status |-> status]
      block == GetDb(data, <<st>>, fault)
  IN  IF status \notin ValidStatuses THEN [data |-> data, response |-> [status_code |-> 400]]
      ELSE IF fault = "connect" \/ StatementRaises(st, fault) /= "none"
      THEN [data |-> data, response |-> [status_code |-> 500]]
      ELSE IF RowCount(data.campaigns, campaign_id) = 0
      THEN [data |-> data, response |-> [status_code |-> 404]]
      ELSE IF block.raised /= "none"
      THEN [data |-> block.data, response |-> [status_code |-> 500]]
      ELSE [data |-> block.data, response |-> [status_code |-> 200]]

\* the request carries a non-empty lead_ids list
HasLeadIds(request) == "lead_ids" \in DOMAIN request /\ request.lead_ids /= <<>>

\* SELECT * FROM leads WHERE id IN (lead_ids): each matching row once, by id
SelectLeadsIn(data, lead_ids) ==
  SelectSeq(data.leads, LAMBDA row : \E i \in DOMAIN lead_ids : IsId(row, lead_ids[i]))

\* the LIMIT of the selection of new leads
NewLeadsLimit == 50

\* a faulty selection without the WHERE clause: the first leads of the table,
\* whatever their status
SelectNewLeadsAnyStatus(data) ==
  SubSeq(data.leads, 1,
         IF Len(data.leads) < NewLeadsLimit THEN Len(data.leads) ELSE NewLeadsLimit)

\* SELECT * FROM leads WHERE status = 'new' LIMIT 50
SelectNewLeads(data) ==
  LET new == SelectSeq(data.leads, LAMBDA row : row.status = "new")
  IN  SubSeq(new, 1, IF Len(new) < NewLeadsLimit THEN Len(new) ELSE NewLeadsLimit)

\* the SELECT of the leads of the request
LeadsStatement(request) ==
  IF HasLeadIds(request) THEN [op |-> "select_leads", ids |-> request.lead_ids]
  ELSE [op |-> "select_new_leads"]

\* the first with block of run_campaign(campaign_id, request): the campaign,
\* the leads of the request and the activation of the campaign; the committed
\* data and either the variant and the leads the loop runs on or the response
\* that ends the request
SelectCampaign(data, campaign_id, request, fault) ==
  LET select == [op |-> "select_campaign", id |-> campaign_id]
      block == GetDb(data,
                     << select, LeadsStatement(request),
                        [op |-> "update_campaign", id |-> campaign_id, status |-> "active"] >>,
                     fault)
  IN  IF fault = "connect" \/ StatementRaises(select, fault) /= "none"
      THEN [data |-> data, status_code |-> 500]
      ELSE IF RowCount(data.campaigns, campaign_id) = 0
      THEN [data |-> data, status_code |-> 404]
      ELSE IF block.raised /= "none" THEN [data |-> block.data, status_code |-> 500]
      ELSE [data           |-> block.data,
            status_code    |-> 200,
            prompt_variant |-> SelectById(data.campaigns, campaign_id).prompt_variant,
            leads          |-> IF HasLeadIds(request) THEN SelectLeadsIn(data, request.lead_ids)
                               ELSE SelectNewLeads(data)]

\* one iteration of the loop over the leads: agent.qualify_lead(lead) returns
\* or raises qualification, and fault raises in the with block; the committed
\* data and the entry appended to results
ProcessLead(data, campaign_id, lead, fault, qualification) ==
  IF IsError(qualification)
  THEN [data |-> data, entry |-> [lead_id |-> lead.id, error |-> qualification.raised]]
  ELSE LET new_status == IF qualification.qualified THEN "qualified" ELSE "disqualified"
           block == GetDb(data,
                          << [op |-> "update_lead", id |-> IntToStr(lead.id),
                              status |-> new_status, score |-> qualification.score],
                             [op |-> "insert_interaction",
                              row |-> [lead_id |-> IntToStr(lead.id),
                                       campaign_id |-> campaign_id,
                                       action_type |-> "qualification", decision |-> new_status,
                                       reasoning |-> qualification.reasoning,
                                       escalated |-> qualification.escalated]] >>,
                          fault)
       IN  IF block.raised /= "none"
           THEN [data |-> block.data, entry |-> [lead_id |-> lead.id, error |-> block.raised]]
           ELSE [data  |-> block.data,
                 entry |-> [lead_id |-> lead.id, company_name |-> lead.company_name,
                            qualified |-> qualification.qualified,
                            score |-> qualification.score,
                            escalated |-> qualification.escalated]]

\* the return of run_campaign after the loop
RunCampaignResponse(campaign_id, results) ==
  [status_code |-> 200, campaign_id |-> campaign_id, leads_processed |-> Len(results),
   results |-> results]
-----------------------------------------------------------------------------
(* Bounds and the inputs drawn within them *)

\* the largest AGENT_MAX_RETRIES the environment sets
MaxRetriesBound == 3

\* the invocation slots: the operations are synchronous, one runs at a time
Calls == {1}

Txt_Jane == <<"J", "a", "n", "e">>

Txt_Mail == <<"j", "@", "x", ".", "c", "o", "m">>

Txt_SaaS == <<"S", "a", "a", "S">>

Txt_Retail == <<"R", "e", "t", "a", "i", "l">>

Txt_Acme == <<"A", "c", "m", "e">>

Txt_AcmeSalesforce ==
  <<"A", "c", "m", "e", " ", "S", "a", "l", "e", "s", "f", "o", "r", "c", "e", " ", "C", "o",
    "r", "p">>

Txt_Mid == <<"5", "0", "-", "5", "0", "0">>

Txt_Small == <<"1", "-", "5", "0">>

\* the lead of the end-to-end scenario: no company_name key
LeadJane ==
  [company_size |-> Txt_Mid, industry |-> Txt_SaaS, contact_name |-> Txt_Jane,
   contact_email |-> Txt_Mail]

\* a complete row with a competitor in the company name
LeadCompetitor ==
  [company_name |-> Txt_AcmeSalesforce, industry |-> Txt_SaaS, company_size |-> Txt_Mid,
   contact_name |-> Txt_Jane, contact_email |-> Txt_Mail]

\* a complete row of a small retail company without a contact name
LeadSmall ==
  [company_name |-> Txt_Acme, industry |-> Txt_Retail, company_size |-> Txt_Small,
   contact_name |-> <<>>, contact_email |-> Txt_Mail]

\* a row whose industry column is NULL, with a competitor in the company name
LeadNoIndustry ==
  [company_name |-> Txt_AcmeSalesforce, industry |-> None, company_size |-> Txt_Mid,
   contact_name |-> None, contact_email |-> Txt_Mail]

\* a row imported with an empty size column
LeadNoSize ==
  [company_name |-> Txt_Acme, industry |-> Txt_Retail, company_size |-> <<>>,
   contact_name |-> Txt_Jane, contact_email |-> Txt_Mail]

Leads == {LeadJane, LeadCompetitor, LeadSmall, LeadNoIndustry, LeadNoSize}

\* a complete row whose company name holds the letters of "cost"
LeadCostco ==
  [company_name |-> <<"C", "o", "s", "t", "c", "o">>, industry |-> Txt_SaaS,
   company_size |-> Txt_Mid, contact_name |-> Txt_Jane, contact_email |-> Txt_Mail]

\* the leads an email is asked for
EmailLeads == Leads \cup {LeadCostco}

Variants == {"A", "B"}

EmailScores == {75}

Txt_Scored ==
  <<" ", "S", "c", "o", "r", "e", ":", " ", "8", "5", "\n", "R", "e", "c", "o", "m", "m", "e",
    "n", "d", "a", "t", "i", "o", "n", ":", " ", "Q", "U", "A", "L", "I", "F", "I", "E", "D",
    "\n", "R", "e", "a", "s", "o", "n", "i", "n", "g", ":", " ", "S", "t", "r", "o", "n", "g",
    " ", "f", "i", "t", "\n">>

Txt_Pricing ==
  <<"S", "u", "b", "j", "e", "c", "t", ":", " ", "H", "i", "\n", "O", "u", "r", " ", "p", "r",
    "i", "c", "i", "n", "g", " ", "s", "t", "a", "r", "t", "s", " ", "a", "t", " ", "$", "9",
    "9", "/", "m", "o", "n", "t", "h">>

Txt_Blank == <<" ", "\n", "\t", "U+001F", "U+00A0">>

\* a score of one digit more than int() converts
Txt_HugeScore ==
  <<"S", "c", "o", "r", "e", ":", " ">> \o [i \in 1..(IntMaxStrDigits + 1) |-> "9"]

\* the completion texts the remote service answers with
CompletionTexts == {Txt_Scored, Txt_Pricing, Txt_Blank, Txt_HugeScore, <<>>}

\* the prompts of the direct calls of generate
RawPrompts ==
  { <<>>, <<"h", "e", "l", "l", "o">>,
    <<"W", "r", "i", "t", "e", " ", "a", " ", "M", "E", "S", "S", "A", "G", "E">>,
    <<"S", "c", "o", "r", "e", " ", "i", "t">> }

\* the credentials the environment sets
Tokens == { <<>>, PlaceholderToken, <<"h", "f", "_", "x">> }

Txt_Gpt2 == <<"g", "p", "t", "2">>

\* the environment that sets the credential and the number of attempts
Environ(token, retries) ==
  [HF_API_TOKEN |-> token, AGENT_MAX_RETRIES |-> IntToStr(retries)]

\* the environment of the runs that make no request: no credential
NoCredential == {Environ(<<>>, MaxRetriesBound)}

\* the environments the process is started in: each credential with each
\* number of attempts; nothing set; another model and another timeout, with
\* whitespace around a number; an empty model name; and values that are no
\* integers, with which the import of llm_service raises
Environments ==
  {Environ(token, retries) : token \in Tokens, retries \in 0..MaxRetriesBound}
    \cup { [x \in {} |-> <<>>],
           [HF_API_TOKEN |-> <<"h", "f", "_", "x">>, HF_MODEL |-> Txt_Gpt2,
            AGENT_MAX_RETRIES |-> <<" ", "1", "\n">>, AGENT_TIMEOUT |-> <<"5">>],
           [HF_MODEL |-> <<>>, AGENT_TIMEOUT |-> <<"+", "U+0665">>],
           [AGENT_MAX_RETRIES |-> <<"a", "b", "c">>],
           [AGENT_MAX_RETRIES |-> <<>>],
           [AGENT_TIMEOUT |-> <<"2", ".", "5">>] }

\* what one requests.post call can end in: a response with a status code and,
\* for 200, a payload; a timeout; any other exception of the transport
RemoteOutcomes ==
  [kind : {"response"}, status : {200}, payload : {"completion"}, text : CompletionTexts]
  \cup [kind : {"response"}, status : {200},
        payload : {"no_choices", "empty_choices", "malformed"}, text : {<<>>}]
  \cup [kind : {"response"}, status : {503, 500, 201}, payload : {"none"}, text : {<<>>}]
  \cup [kind : {"timeout", "error"}, status : {0}, payload : {"none"}, text : {<<>>}]

\* the values datetime.utcnow().isoformat() returns
Timestamps == {"t1", "t2"}

\* the arguments of one invocation
Inputs ==
  [op : {"qualify"}, variant : Variants, lead_data : Leads]
  \cup [op : {"email"}, variant : Variants, lead_data : EmailLeads, score : EmailScores]
  \cup [op : {"generate"}, prompt : RawPrompts]

-----------------------------------------------------------------------------
(* The oracle and the two operations as a state machine *)

NoOutcome == [kind |-> "none", status |-> 0, payload |-> "none", text |-> <<>>]

NotReturned == [how |-> "none", text |-> <<>>]

\* the value of a result that is not there yet
NoResult == [pending |-> TRUE]

NoInput == [op |-> "none"]

\* the prompt the operation hands to LLMService.generate
PromptOf(in) ==
  CASE in.op = "qualify"  -> QualificationPrompt(in.variant, in.lead_data)
    [] in.op = "email"    -> EmailPrompt(in.variant, in.lead_data, in.score)
    [] in.op = "generate" -> in.prompt

\* what the operation returns once generate has returned text, without the
\* timestamp
Finish(in, text) ==
  CASE in.op = "qualify"  -> QualifyLead(in.variant, in.lead_data, text)
    [] in.op = "email"    -> GenerateEmail(in.variant, in.lead_data, text)
    [] in.op = "generate" -> [text |-> text]

\* the value r the operation returns, with the timestamp the two orchestrator
\* operations put in their result at time now
Timestamped(in, r, now) == IF in.op \in {"qualify", "email"} THEN Stamped(r, now) ELSE r

\* a faulty loop bound, one iteration too many
InRangeInclusive(a, max_retries) == 0 <= a /\ a <= max_retries

\* range(self.max_retries) holds the attempt index a
InRange(a, max_retries) == 0 <= a /\ a < max_retries

\* the exception the try block raises on an outcome: requests.Timeout, another
\* exception of requests.post, or one of response.json() and of the payload's
\* indexing; "none" when the block raises nothing
Raised(o) ==
  CASE o.kind = "timeout" -> "Timeout"
    [] o.kind = "error" -> "ConnectionError"
    [] o.kind = "response" /\ o.status = 200 /\ o.payload = "malformed" -> "KeyError"
    [] OTHER -> "none"

\* the except clause that takes an exception: requests.Timeout first, then Exception
ExceptClause(exc) == IF exc = "Timeout" THEN "except_timeout" ELSE "except_exception"

\* the branch of the loop body an outcome takes
Branch(o) ==
  IF Raised(o) /= "none" THEN ExceptClause(Raised(o))
  ELSE IF o.status = 200
       THEN IF o.payload = "completion" THEN "return" ELSE "unexpected_format"
       ELSE IF o.status = 503 THEN "model_loading" ELSE "api_error"

\* the fixed wait after a 503 response
ModelLoadingWait == 10

\* a faulty backoff that also waits after the last attempt
BackoffEveryAttempt(a, max_retries) == <<2 ^ a>>

\* the wait of a failed attempt: time.sleep(2 ** attempt) unless it was the last
Backoff(a, max_retries) == IF a < max_retries - 1 THEN <<2 ^ a>> ELSE <<>>

\* faulty waits that back off after a 200 response without a completion
WaitAfterUnexpectedFormat(branch, a, max_retries) ==
  CASE branch = "model_loading" -> <<ModelLoadingWait>>
    [] branch \in {"unexpected_format", "api_error", "except_timeout", "except_exception"} ->
         Backoff(a, max_retries)
    [] OTHER -> <<>>

\* faulty waits that skip the wait after a 503 response to the last attempt
WaitNotAfterLast(branch, a, max_retries) ==
  CASE branch = "model_loading" -> IF a < max_retries - 1 THEN <<ModelLoadingWait>> ELSE <<>>
    [] branch \in {"api_error", "except_timeout", "except_exception"} -> Backoff(a, max_retries)
    [] OTHER -> <<>>

\* faulty waits that treat a 503 response as any other failure
WaitBackoffOnly(branch, a, max_retries) ==
  CASE branch \in {"model_loading", "api_error", "except_timeout", "except_exception"} ->
         Backoff(a, max_retries)
    [] OTHER -> <<>>

\* the time.sleep calls of a branch, at attempt a
Wait(branch, a, max_retries) ==
  CASE branch = "model_loading" -> <<ModelLoadingWait>>
    [] branch \in {"api_error", "except_timeout", "except_exception"} -> Backoff(a, max_retries)
    [] OTHER -> <<>>

\* the input of an operation run by an agent of another variant
WithVariant(in, other) ==
  IF "variant" \in DOMAIN in /\ "variant" \in DOMAIN other
  THEN [in EXCEPT !.variant = other.variant]
  ELSE in

\* a faulty agent kept at module level and shared by the requests, each of
\* which sets its variant: the operation completes with the variant of any
\* of the invocations in flight
ReturnSharedAgent(c, how, text) ==
  /\ returned' = [returned EXCEPT ![c] = [how |-> how, text |-> text]]
  /\ \E d \in DOMAIN pc, now \in Timestamps :
       \E r \in {Finish(WithVariant(input[c], input[d]), text)} :
         /\ result' = [result EXCEPT ![c] = IF IsError(r) THEN r
                                             ELSE Timestamped(input[c], r, now)]
         /\ pc' = [pc EXCEPT ![c] = IF IsError(r) THEN "raised" ELSE "done"]

\* generate returns: the operation completes in the same step
Return(c, how, text) ==
  /\ returned' = [returned EXCEPT ![c] = [how |-> how, text |-> text]]
  /\ \E r \in {Finish(input[c], text)}, now \in Timestamps :
       /\ result' = [result EXCEPT ![c] = IF IsError(r) THEN r
                                           ELSE Timestamped(input[c], r, now)]
       /\ pc' = [pc EXCEPT ![c] = IF IsError(r) THEN "raised" ELSE "done"]

\* the variables of the runs of the parser, of the governance rules, of the
\* escalation rules and of the endpoint
pureVars == <<ptext, plead, pout, gtext, gout, ein, eout, db, serving>>

\* the variables of the invocations
callVars == <<pc, input, attempt, requests, last, completions, sleeps, returned, result>>

ParserIdle == ptext = <<>> /\ plead = NoInput /\ pout = NoResult

GovernanceIdle == gtext = <<>> /\ gout = NoResult

EscalationIdle == ein = NoInput /\ eout = NoResult

\* the clients whose requests the server handles at the same time
Clients == {1, 2}

\* no request of the client is being handled
NoRequest == [handler |-> "none", pc |-> "idle"]

\* no database is open
NoDatabase ==
  [leads |-> <<>>, campaigns |-> <<>>, agent_interactions |-> <<>>,
   sqlite_sequence |-> [leads |-> 0, campaigns |-> 0]]

ServerIdle == db = NoDatabase /\ serving = [c \in Clients |-> NoRequest]

PureIdle == ParserIdle /\ GovernanceIdle /\ EscalationIdle /\ ServerIdle

\* no invocation has started in the slots
SlotsIdle(slots) ==
  /\ pc = [c \in slots |-> "idle"]
  /\ input = [c \in slots |-> NoInput]
  /\ attempt = [c \in slots |-> 0]
  /\ requests = [c \in slots |-> 0]
  /\ last = [c \in slots |-> NoOutcome]
  /\ completions = [c \in slots |-> 0]
  /\ sleeps = [c \in slots |-> <<>>]
  /\ returned = [c \in slots |-> NotReturned]
  /\ result = [c \in slots |-> NoResult]

CallsIdle == SlotsIdle(Calls)

TypeOK ==
  /\ config \in [api_token : Tokens, model : {DefaultModel, Txt_Gpt2, <<>>},
                 max_retries : 0..MaxRetriesBound, timeout : {30, 5}, enabled : BOOLEAN]
  /\ pc \in [Calls -> {"idle", "attempt", "done", "raised"}]
  /\ attempt \in [Calls -> Nat]
  /\ requests \in [Calls -> Nat]
  /\ completions \in [Calls -> Nat]

\* the module-level LLMService() in an environment in which the import of
\* the module succeeds
Constructed(environs) ==
  \E environ \in environs :
    /\ ~IsError(LLMServiceInit(environ))
    /\ config = LLMServiceInit(environ)

Init ==
  /\ Constructed(Environments)
  /\ CallsIdle
  /\ PureIdle

\* an operation is invoked and runs up to its first requests.post, or to its
\* end when generate returns without a request
CallOf(c, ins) ==
  /\ pc[c] = "idle"
  /\ \E in \in ins :
       /\ input' = [input EXCEPT ![c] = in]
       /\ IF ~config.enabled \/ ~InRange(0, config.max_retries)
          THEN /\ returned' = [returned EXCEPT ![c] =
                                 [how |-> "fallback", text |-> FallbackResponse(PromptOf(in))]]
               /\ \E r \in {Finish(in, FallbackResponse(PromptOf(in)))}, now \in Timestamps :
                    result' = [result EXCEPT ![c] = Timestamped(in, r, now)]
               /\ pc' = [pc EXCEPT ![c] = "done"]
          ELSE /\ pc' = [pc EXCEPT ![c] = "attempt"]
               /\ UNCHANGED <<returned, result>>
  /\ UNCHANGED <<config, attempt, requests, last, completions, sleeps, pureVars>>

Call(c) == CallOf(c, Inputs)

\* one iteration of the retry loop: the request, the handling of its outcome
\* and, after the last iteration, the fallback
AttemptOf(c, outcomes) ==
  /\ pc[c] = "attempt"
  /\ \E o \in outcomes :
       LET a == attempt[c]
           branch == Branch(o)
       IN  /\ requests' = [requests EXCEPT ![c] = @ + 1]
           /\ last' = [last EXCEPT ![c] = o]
           /\ CASE branch = "return" ->
                   /\ completions' = [completions EXCEPT ![c] = @ + 1]
                   /\ Return(c, "completion", Strip(o.text))
                   /\ UNCHANGED <<attempt, sleeps>>
                [] branch = "uncaught" ->
                   /\ pc' = [pc EXCEPT ![c] = "raised"]
                   /\ UNCHANGED <<attempt, sleeps, completions, returned, result>>
                [] OTHER ->
                   /\ sleeps' = [sleeps EXCEPT ![c] = @ \o Wait(branch, a, config.max_retries)]
                   /\ attempt' = [attempt EXCEPT ![c] = a + 1]
                   /\ UNCHANGED completions
                   /\ IF InRange(a + 1, config.max_retries)
                      THEN UNCHANGED <<pc, returned, result>>
                      ELSE Return(c, "fallback", FallbackResponse(PromptOf(input[c])))
  /\ UNCHANGED <<config, input, pureVars>>

Attempt(c) == AttemptOf(c, RemoteOutcomes)

\* a faulty completion that clears the loop variable of every invocation, as
\* a counter kept on the shared LLMService instance would be
DoneSharedCounter(c) ==
  /\ pc[c] \in {"done", "raised"}
  /\ pc' = [pc EXCEPT ![c] = "idle"]
  /\ input' = [input EXCEPT ![c] = NoInput]
  /\ attempt' = [d \in DOMAIN attempt |-> 0]
  /\ requests' = [requests EXCEPT ![c] = 0]
  /\ last' = [last EXCEPT ![c] = NoOutcome]
  /\ completions' = [completions EXCEPT ![c] = 0]
  /\ sleeps' = [sleeps EXCEPT ![c] = <<>>]
  /\ returned' = [returned EXCEPT ![c] = NotReturned]
  /\ result' = [result EXCEPT ![c] = NoResult]
  /\ UNCHANGED <<config, pureVars>>

\* the caller takes the result or the exception; the slot is free for the
\* next invocation
Done(c) ==
  /\ pc[c] \in {"done", "raised"}
  /\ pc' = [pc EXCEPT ![c] = "idle"]
  /\ input' = [input EXCEPT ![c] = NoInput]
  /\ attempt' = [attempt EXCEPT ![c] = 0]
  /\ requests' = [requests EXCEPT ![c] = 0]
  /\ last' = [last EXCEPT ![c] = NoOutcome]
  /\ completions' = [completions EXCEPT ![c] = 0]
  /\ sleeps' = [sleeps EXCEPT ![c] = <<>>]
  /\ returned' = [returned EXCEPT ![c] = NotReturned]
  /\ result' = [result EXCEPT ![c] = NoResult]
  /\ UNCHANGED <<config, pureVars>>

Next == \E c \in Calls : Call(c) \/ Attempt(c) \/ Done(c)

Spec == Init /\ [][Next]_vars

-----------------------------------------------------------------------------
(* Runs of the response parser and of qualify_lead on oracle texts *)

\* the largest number of fragments an oracle text is made of
MaxParserFragments == 3

\* the length of the longest line of an oracle text, one more than the
\* characters response[:200] keeps
MaxLineLength == 201

\* a line of that length
LongLine == [i \in 1..MaxLineLength |-> "a"]

ParserFragments ==
  { <<"S", "c", "o", "r", "e", ":", " ">>,
    <<"s", "c", "o", "r", "e", ":">>,
    <<"S", "C", "O", "R", "E", ":", " ">>,
    <<"R", "e", "a", "s", "o", "n", "i", "n", "g", ":", " ">>,
    LongLine,
    <<"1", "5", "0">>,
    <<"6", "0">>,
    <<"Q", "U", "A", "L", "I", "F", "I", "E", "D">>,
    <<"D", "i", "s", "q", "u", "a", "l", "i", "f", "i", "e", "d">>,
    <<"\n", "R", "e", "a", "s", "o", "n", "i", "n", "g", ":", " ", "f", "i", "t", " ", "\n">>,
    <<"S", "c", "o", "r", "e", ":", " ", "9", "0", "\n", "R", "e", "c", "o", "m", "m", "e", "n",
      "d", "a", "t", "i", "o", "n", ":", " ", "Q", "U", "A", "L", "I", "F", "I", "E", "D", "\n">> }

\* the concatenation of a sequence of texts
RECURSIVE Concat(_)
Concat(ts) == IF Len(ts) = 0 THEN <<>> ELSE Head(ts) \o Concat(Tail(ts))

\* qualified with a dotless i twice, which str.upper() turns into I
Txt_DotlessQualified ==
  <<"q", "u", "a", "l", "U+0131", "f", "U+0131", "e", "d", " ", "S", "c", "o", "r", "e",
    ":", " ", "1", "0">>

\* qualified with the ligature fi, which str.upper() turns into FI
Txt_LigatureQualified ==
  <<"S", "c", "o", "r", "e", ":", " ", "1", "0", " ", "q", "u", "a", "l", "i", "U+FB01",
    "e", "d">>

\* Disqualified with a long s, which str.upper() turns into S
Txt_LongSDisqualified ==
  <<"D", "i", "U+017F", "q", "u", "a", "l", "i", "f", "i", "e", "d", " ", "S", "c", "o",
    "r", "e", ":", " ", "9", "0">>

\* a unit separator and a no-break space between the marker and Arabic-Indic digits
Txt_ArabicScore ==
  <<"S", "c", "o", "r", "e", ":", "U+001F", "U+00A0", "U+0668", "U+0665">>

\* a no-break space after the reasoning marker and a unit separator before the line feed
Txt_SpacedReasoning ==
  <<"R", "e", "a", "s", "o", "n", "i", "n", "g", ":", "U+00A0", "o", "k", " ", "U+001F",
    "\n", "m", "o", "r", "e">>

\* oracle texts with characters outside the letters, digits and blanks of ASCII
ParserCornerTexts ==
  {Txt_DotlessQualified, Txt_LigatureQualified, Txt_LongSDisqualified, Txt_ArabicScore,
   Txt_SpacedReasoning, Txt_HugeScore}

ParserTexts ==
  {Concat(fs) : fs \in UNION {[1..n -> ParserFragments] : n \in 0..MaxParserFragments}}
    \cup ParserCornerTexts

ParserLeads == [variant : {"A"}, lead_data : {LeadJane, LeadNoIndustry, LeadSmall}]

InitParser ==
  /\ Constructed(NoCredential)
  /\ CallsIdle
  /\ ptext \in ParserTexts
  /\ plead \in ParserLeads
  /\ pout = NoResult
  /\ GovernanceIdle /\ EscalationIdle /\ ServerIdle

\* the parser, and qualify_lead with the oracle answering ptext
ParseStep ==
  /\ pout = NoResult
  /\ pout' = [pending |-> FALSE,
              parsed  |-> ParseQualificationResponse(ptext),
              qualify |-> QualifyLead(plead.variant, plead.lead_data, ptext)]
  /\ UNCHANGED <<config, callVars, ptext, plead, gtext, gout, ein, eout, db, serving>>

NextParser == ParseStep

SpecParser == InitParser /\ [][NextParser]_vars

-----------------------------------------------------------------------------
(* Runs of the governance rules on email texts *)

\* the largest number of fragments an email text is made of
MaxEmailFragments == 3

\* a filler of 996 characters
Filler == [i \in 1..996 |-> "a"]

EmailFragments ==
  { <<"S", "U", "B", "J", "E", "C", "T", ":", " ">>,
    <<"P", "r", "i", "c", "i", "n", "g">>,
    <<"$", "9">>,
    <<"c", "o", "f", "f", "e", "e">>,
    <<"h", "i">>,
    Filler }

\* a subject line that begins with a long s, which re.IGNORECASE takes for an s
Txt_LongSSubject ==
  <<"U+017F", "u", "b", "j", "e", "c", "t", ":", " ", "h", "i">>

\* PRICE with a dotted capital I, which str.lower() turns into i and a combining dot
Txt_DottedPrice ==
  <<"P", "R", "U+0130", "C", "E", " ", "l", "i", "s", "t">>

\* a fee quoted in Greek capitals, the last of them a final sigma
Txt_GreekFee ==
  <<"F", "E", "E", " ", "U+03A4", "U+0399", "U+039C", "U+0397", "U+03A3">>

\* email texts with letters outside ASCII
EmailCornerTexts == {Txt_LongSSubject, Txt_DottedPrice, Txt_GreekFee}

EmailTexts ==
  {Concat(fs) : fs \in UNION {[1..n -> EmailFragments] : n \in 0..MaxEmailFragments}}
    \cup EmailCornerTexts

InitGovernance ==
  /\ Constructed(NoCredential)
  /\ CallsIdle
  /\ ParserIdle /\ EscalationIdle /\ ServerIdle
  /\ gtext \in EmailTexts
  /\ gout = NoResult

\* _check_governance on gtext
GovernanceStep ==
  /\ gout = NoResult
  /\ gout' = [pending  |-> FALSE,
              approved |-> CheckGovernance(gtext).approved,
              issues   |-> CheckGovernance(gtext).issues]
  /\ UNCHANGED <<config, callVars, ptext, plead, pout, gtext, ein, eout, db, serving>>

NextGovernance == GovernanceStep

SpecGovernance == InitGovernance /\ [][NextGovernance]_vars

-----------------------------------------------------------------------------
(* Runs of the escalation rules on leads, decisions and reasonings *)

\* the largest number of fragments a reasoning is made of
MaxReasoningFragments == 2

ReasoningFragments ==
  { <<"U", "s", "e", "s", " ", "H", "U", "B", "S", "P", "O", "T">>,
    <<"o", "u", "t", "r", "e", "a", "c", "h">>,
    <<"s", "a", "l", "e", "s">>,
    <<"f", "o", "r", "c", "e">>,
    <<" ">>,
    <<"f", "i", "t">> }

\* Salesforce with a long s, which str.lower() leaves as it is
Txt_LongSSalesforce ==
  <<"S", "a", "l", "e", "U+017F", "f", "o", "r", "c", "e">>

\* HubSpot in capitals with a Kelvin sign after it, which str.lower() turns into k
Txt_KelvinHubspot ==
  <<"H", "U", "B", "S", "P", "O", "T", " ", "U+212A">>

\* reasonings with letters outside ASCII
ReasoningCornerTexts == {Txt_LongSSalesforce, Txt_KelvinHubspot}

ReasoningTexts ==
  {Concat(fs) : fs \in UNION {[1..n -> ReasoningFragments] : n \in 0..MaxReasoningFragments}}
    \cup ReasoningCornerTexts

\* a complete row whose company name is the first half of a competitor's name
LeadSales ==
  [company_name |-> <<"S", "a", "l", "e", "s">>, industry |-> Txt_SaaS, company_size |-> Txt_Mid,
   contact_name |-> Txt_Jane, contact_email |-> Txt_Mail]

\* a row whose industry column is NULL, with no competitor in the company name
LeadAcmeNoIndustry ==
  [company_name |-> Txt_Acme, industry |-> None, company_size |-> Txt_Mid,
   contact_name |-> Txt_Jane, contact_email |-> Txt_Mail]

EscalationLeads == Leads \cup {LeadSales, LeadAcmeNoIndustry}

EscalationInputs ==
  [lead_data : EscalationLeads, decision : {"QUALIFIED", "DISQUALIFIED"},
   reasoning : ReasoningTexts]

InitEscalation ==
  /\ Constructed(NoCredential)
  /\ CallsIdle
  /\ ParserIdle /\ GovernanceIdle /\ ServerIdle
  /\ ein \in EscalationInputs
  /\ eout = NoResult

\* _check_escalation_rules on ein
EscalationStep ==
  /\ eout = NoResult
  /\ eout' = [pending   |-> FALSE,
              escalated |-> CheckEscalationRules(ein.lead_data, ein.decision, ein.reasoning).escalated,
              reason    |-> CheckEscalationRules(ein.lead_data, ein.decision, ein.reasoning).reason]
  /\ UNCHANGED <<config, callVars, ptext, plead, pout, gtext, gout, ein, db, serving>>

NextEscalation == EscalationStep

SpecEscalation == InitEscalation /\ [][NextEscalation]_vars

-----------------------------------------------------------------------------
(* Concurrent invocations: several SDRAgent instances, each in its own     *)
(* request, sharing the module-level llm_service                           *)

\* the invocations that run at the same time
Workers == {1, 2}

\* the largest AGENT_MAX_RETRIES of the concurrent runs
MaxConcurrentRetries == 2

ConcurrentInputs ==
  { [op |-> "qualify", variant |-> "A", lead_data |-> LeadJane],
    [op |-> "email", variant |-> "B", lead_data |-> LeadJane, score |-> 75],
    [op |-> "generate", prompt |-> <<"h", "e", "l", "l", "o">>] }

ConcurrentOutcomes ==
  { [kind |-> "response", status |-> 200, payload |-> "completion", text |-> Txt_Scored],
    [kind |-> "response", status |-> 503, payload |-> "none", text |-> <<>>],
    [kind |-> "timeout", status |-> 0, payload |-> "none", text |-> <<>>] }

InitConcurrent ==
  /\ Constructed({Environ(token, retries) : token \in Tokens, retries \in 0..MaxConcurrentRetries})
  /\ SlotsIdle(Workers)
  /\ PureIdle

ConcurrentCall(c) == CallOf(c, ConcurrentInputs)

ConcurrentAttempt(c) == AttemptOf(c, ConcurrentOutcomes)

NextConcurrent == \E c \in Workers : ConcurrentCall(c) \/ ConcurrentAttempt(c) \/ Done(c)

SpecConcurrent == InitConcurrent /\ [][NextConcurrent]_vars

-----------------------------------------------------------------------------
(* Repeated invocations: the same Qualify invoked again, at another time   *)
(* and after other retries, while invocations of the other variant and of  *)
(* the other operation run                                                 *)

\* the invocations that run at the same time
RepeatWorkers == {1, 2, 3}

RepeatInputs ==
  { [op |-> "qualify", variant |-> "A", lead_data |-> LeadJane],
    [op |-> "qualify", variant |-> "B", lead_data |-> LeadJane],
    [op |-> "email", variant |-> "B", lead_data |-> LeadJane, score |-> 75] }

RepeatOutcomes ==
  { [kind |-> "response", status |-> 200, payload |-> "completion", text |-> Txt_Scored],
    [kind |-> "timeout", status |-> 0, payload |-> "none", text |-> <<>>] }

InitRepeat ==
  /\ Constructed({Environ(token, retries) : token \in Tokens, retries \in {0, MaxConcurrentRetries}})
  /\ SlotsIdle(RepeatWorkers)
  /\ PureIdle

RepeatCall(c) == CallOf(c, RepeatInputs)

RepeatAttempt(c) == AttemptOf(c, RepeatOutcomes)

NextRepeat == \E c \in RepeatWorkers : RepeatCall(c) \/ RepeatAttempt(c) \/ Done(c)

SpecRepeat == InitRepeat /\ [][NextRepeat]_vars

-----------------------------------------------------------------------------
(* The server: the requests of the clients on the database they share.  A  *)
(* step is one with get_db() block of a handler together with what the     *)
(* handler computes before it on its own locals: the calls of the agent,   *)
(* which read the row the handler holds and the oracle's answer and touch  *)
(* no shared state.  A client sends one request.                           *)

\* the steps of the server leave the oracle and the runs of the rules alone
ServerStep == UNCHANGED <<config, callVars, ptext, plead, pout, gtext, gout, ein, eout>>

\* the request the client sent is answered
Answered(c) == serving[c].pc = "done"

\* create_lead for client c
CreateLeadOf(c, leads, faults) ==
  /\ serving[c].pc = "idle"
  /\ \E lead \in leads, fault \in faults :
       \E step \in {CreateLead(db, lead, fault)} :
         /\ db' = step.data
         /\ serving' = [serving EXCEPT ![c] = [handler |-> "create_lead", pc |-> "done",
                                               lead |-> lead, fault |-> fault,
                                               response |-> step.response]]
  /\ ServerStep

\* import_leads for client c, up to `await file.read()`: the handler checks
\* the name of the file and answers 400, or waits for the content and gives
\* the event loop to the other requests
ImportLeadsStartOf(c, files) ==
  /\ serving[c].pc = "idle"
  /\ \E file \in files :
       serving' = [serving EXCEPT ![c] =
                     IF IsCsvName(file.filename)
                     THEN [handler |-> "import_leads", pc |-> "read", file |-> file]
                     ELSE [handler |-> "import_leads", pc |-> "done",
                           file |-> file, fault |-> "none",
                           response |-> [status_code |-> 400]]]
  /\ UNCHANGED db
  /\ ServerStep

\* import_leads for client c, from the content read on: it decodes and reads
\* the file and inserts its rows in one block, on the tables as they are then
ImportLeadsOf(c, faults) ==
  /\ serving[c].handler = "import_leads"
  /\ serving[c].pc = "read"
  /\ \E fault \in faults :
       \E step \in {ImportLeads(db, serving[c].file.content, fault)} :
         /\ db' = step.data
         /\ serving' = [serving EXCEPT ![c] = [handler |-> "import_leads", pc |-> "done",
                                               file |-> serving[c].file, fault |-> fault,
                                               response |-> step.response]]
  /\ ServerStep

\* delete_lead for client c
DeleteLeadOf(c, ids, faults) ==
  /\ serving[c].pc = "idle"
  /\ \E lead_id \in ids, fault \in faults :
       \E step \in {DeleteLead(db, lead_id, fault)} :
         /\ db' = step.data
         /\ serving' = [serving EXCEPT ![c] = [handler |-> "delete_lead", pc |-> "done",
                                               lead_id |-> lead_id, fault |-> fault,
                                               response |-> step.response]]
  /\ ServerStep

\* create_campaign for client c
CreateCampaignOf(c, campaigns, faults) ==
  /\ serving[c].pc = "idle"
  /\ \E campaign \in campaigns, fault \in faults :
       \E step \in {CreateCampaign(db, campaign, fault)} :
         /\ db' = step.data
         /\ serving' = [serving EXCEPT ![c] = [handler |-> "create_campaign", pc |-> "done",
                                               campaign |-> campaign, fault |-> fault,
                                               response |-> step.response]]
  /\ ServerStep

\* update_campaign_status for client c
UpdateCampaignStatusOf(c, ids, statuses, faults) ==
  /\ serving[c].pc = "idle"
  /\ \E campaign_id \in ids, status \in statuses, fault \in faults :
       \E step \in {UpdateCampaignStatus(db, campaign_id, status, fault)} :
         /\ db' = step.data
         /\ serving' = [serving EXCEPT ![c] = [handler |-> "update_campaign_status",
                                               pc |-> "done", campaign_id |-> campaign_id,
                                               status |-> status, fault |-> fault,
                                               response |-> step.response]]
  /\ ServerStep

\* qualify_lead of the router for client c, up to the end of its first with
\* block: the handler holds the row of the lead, or has answered
QualifyLeadSelectOf(c, ids, variants, faults) ==
  /\ serving[c].pc = "idle"
  /\ \E lead_id \in ids, use_variant \in variants, fault \in faults :
       \E step \in {SelectLead(db, lead_id, fault)} :
         serving' = [serving EXCEPT ![c] =
                       IF step.status_code = 200
                       THEN [handler |-> "qualify_lead", pc |-> "agent", lead_id |-> lead_id,
                             use_variant |-> use_variant, lead_data |-> step.lead_data]
                       ELSE [handler |-> "qualify_lead", pc |-> "done", lead_id |-> lead_id,
                             use_variant |-> use_variant, result |-> step]]
  /\ UNCHANGED db
  /\ ServerStep

\* qualify_lead of the router for client c, from the calls of the agent to
\* the response: the oracle answers texts.qualify and texts.email
QualifyLeadStoreOf(c, texts, faults) ==
  /\ serving[c].handler = "qualify_lead"
  /\ serving[c].pc = "agent"
  /\ \E text \in texts, fault \in faults :
       \E step \in {QualifyLeadEndpoint(db, serving[c].lead_id, serving[c].lead_data,
                                        serving[c].use_variant, text.qualify, text.email,
                                        fault)} :
         /\ db' = step.data
         /\ serving' = [serving EXCEPT ![c] = [handler |-> "qualify_lead", pc |-> "done",
                                               lead_id |-> serving[c].lead_id,
                                               use_variant |-> serving[c].use_variant,
                                               lead_data |-> serving[c].lead_data,
                                               qualify_text |-> text.qualify,
                                               email_text |-> text.email,
                                               fault |-> fault,
                                               result |-> step.result]]
  /\ ServerStep

\* run_campaign for client c, up to the end of its first with block: the
\* handler holds the leads it selected, or has answered (the loop over no
\* lead ends at once)
RunCampaignSelectOf(c, bodies, faults) ==
  /\ serving[c].pc = "idle"
  /\ \E request \in bodies, fault \in faults :
       \E step \in {SelectCampaign(db, request.campaign_id, request, fault)} :
         /\ db' = step.data
         /\ serving' = [serving EXCEPT ![c] =
                          IF step.status_code /= 200
                          THEN [handler |-> "run_campaign", pc |-> "done", request |-> request,
                                response |-> [status_code |-> step.status_code]]
                          ELSE [handler        |-> "run_campaign",
                                pc             |-> IF step.leads = <<>> THEN "done" ELSE "loop",
                                request        |-> request,
                                prompt_variant |-> step.prompt_variant,
                                leads          |-> step.leads,
                                results        |-> <<>>,
                                response       |-> IF step.leads = <<>>
                                                   THEN RunCampaignResponse(request.campaign_id, <<>>)
                                                   ELSE NoResult]]
  /\ ServerStep

\* run_campaign for client c: one iteration of its loop, on the next of the
\* leads it selected, the oracle answering outcome.text and outcome.fault
\* raising in the with block; after the last lead the handler answers
RunCampaignLeadOf(c, outcomes) ==
  /\ serving[c].handler = "run_campaign"
  /\ serving[c].pc = "loop"
  /\ \E outcome \in outcomes :
       \E lead \in {serving[c].leads[Len(serving[c].results) + 1]} :
         \E step \in {ProcessLead(db, serving[c].request.campaign_id, lead, outcome.fault,
                                  QualifyLead(serving[c].prompt_variant, lead, outcome.text))} :
           \E results \in {Append(serving[c].results, step.entry)} :
             /\ db' = step.data
             /\ serving' = [serving EXCEPT ![c].results = results,
                                           ![c].pc = IF Len(results) = Len(serving[c].leads)
                                                     THEN "done" ELSE "loop",
                                           ![c].response =
                                             IF Len(results) = Len(serving[c].leads)
                                             THEN RunCampaignResponse(
                                                    serving[c].request.campaign_id, results)
                                             ELSE NoResult]
  /\ ServerStep

-----------------------------------------------------------------------------
(* The rows and the inputs of the runs of the server *)

\* the row of the leads table a lead was inserted as
LeadRow(id, lead_data) ==
  [id |-> id, company_name |-> lead_data.company_name, industry |-> lead_data.industry,
   company_size |-> lead_data.company_size, contact_email |-> lead_data.contact_email,
   contact_name |-> lead_data.contact_name, status |-> "new", score |-> 0]

\* the row of the campaigns table of a draft campaign
CampaignRow(id, variant) ==
  [id |-> id, name |-> <<"Q", "4">>, prompt_template |-> None, prompt_variant |-> variant,
   status |-> "draft"]

Txt_Rejected ==
  <<"S", "c", "o", "r", "e", ":", " ", "3", "0", "\n", "D", "I", "S", "Q", "U", "A", "L", "I",
    "F", "I", "E", "D">>

Txt_Hello ==
  <<"S", "u", "b", "j", "e", "c", "t", ":", " ", "H", "i", "\n", "L", "e", "t", "'", "s", " ",
    "t", "a", "l", "k">>

\* a qualification whose reasoning holds a lone surrogate
Txt_SurrogateReasoning ==
  <<"S", "c", "o", "r", "e", ":", " ", "8", "5", "\n", "Q", "U", "A", "L", "I", "F", "I", "E",
    "D", "\n", "R", "e", "a", "s", "o", "n", "i", "n", "g", ":", " ", "g", "o", "o", "d", " ",
    "U+D800", " ", "f", "i", "t">>

\* a rejection whose reasoning is a lone surrogate
Txt_SurrogateRejected ==
  <<"S", "c", "o", "r", "e", ":", " ", "1", "0", "\n", "R", "e", "a", "s", "o", "n", "i", "n",
    "g", ":", " ", "U+D800">>

\* a qualification with a lone surrogate outside its reasoning
Txt_SurrogateAside ==
  <<"S", "c", "o", "r", "e", ":", " ", "8", "5", " ", "U+DC00", "\n", "Q", "U", "A", "L", "I",
    "F", "I", "E", "D", "\n", "R", "e", "a", "s", "o", "n", "i", "n", "g", ":", " ", "g", "o",
    "o", "d", " ", "f", "i", "t">>

\* an email with a lone surrogate in its subject
Txt_SurrogateEmail ==
  <<"S", "u", "b", "j", "e", "c", "t", ":", " ", "H", "i", " ", "U+DFFF", " ", "t", "h", "e",
    "r", "e">>

\* the lead a client creates
NewLead ==
  [company_name |-> <<"N", "e", "w", "c", "o">>, industry |-> None, company_size |-> None,
   contact_email |-> Txt_Mail, contact_name |-> None]

\* b'contact_email,company_name\nj@x.com,Acme\nj@x.com\n': a row, and a row
\* that ends before its company name
Bytes_Leads ==
  <<99, 111, 110, 116, 97, 99, 116, 95, 101, 109, 97, 105, 108, 44, 99, 111, 109, 112, 97,
    110, 121, 95, 110, 97, 109, 101, 10, 106, 64, 120, 46, 99, 111, 109, 44, 65, 99, 109,
    101, 10, 106, 64, 120, 46, 99, 111, 109, 10>>

\* b'company_name\nCaf\xe9\n': a file in Latin-1, which is no UTF-8
Bytes_Latin1 ==
  <<99, 111, 109, 112, 97, 110, 121, 95, 110, 97, 109, 101, 10, 67, 97, 102, 233, 10>>

\* b'contact_email,company_name\nj@x.com,Acme\nj@x.com\rAcme\n': a row, and a
\* carriage return inside the next line
Bytes_CarriageReturn ==
  <<99, 111, 110, 116, 97, 99, 116, 95, 101, 109, 97, 105, 108, 44, 99, 111, 109, 112, 97,
    110, 121, 95, 110, 97, 109, 101, 10, 106, 64, 120, 46, 99, 111, 109, 44, 65, 99, 109,
    101, 10, 106, 64, 120, 46, 99, 111, 109, 13, 65, 99, 109, 101, 10>>

Txt_LeadsCsv == <<"l", "e", "a", "d", "s", ".", "c", "s", "v">>

Txt_LeadsTxt == <<"l", "e", "a", "d", "s", ".", "t", "x", "t">>

\* the files a client imports: one of two rows, one whose name is not that of
\* a CSV file, one that does not decode and one the reader raises on
ImportFiles ==
  { [filename |-> Txt_LeadsCsv, content |-> Bytes_Leads],
    [filename |-> Txt_LeadsTxt, content |-> Bytes_Leads],
    [filename |-> Txt_LeadsCsv, content |-> Bytes_Latin1],
    [filename |-> Txt_LeadsCsv, content |-> Bytes_CarriageReturn] }

\* an id beyond the range of an SQLite INTEGER: 2 ** 63
TwoTo63 ==
  <<"9", "2", "2", "3", "3", "7", "2", "0", "3", "6", "8", "5", "4", "7", "7", "5", "8", "0",
    "8">>

\* the campaign a client creates
NewCampaign == [name |-> <<"Q", "1">>, prompt_template |-> None, prompt_variant |-> "A"]

NoFault == {"none"}

-----------------------------------------------------------------------------
(* Runs of the lead-qualification endpoint next to the requests that write *)
(* the leads table                                                         *)

\* the rows of the leads table
EndpointLeads == {LeadSales, LeadCompetitor, LeadSmall, LeadNoIndustry}

\* a database whose leads table holds one row
OneLeadDatabase(lead_data) ==
  [leads |-> << LeadRow(1, lead_data) >>, campaigns |-> <<>>, agent_interactions |-> <<>>,
   sqlite_sequence |-> [leads |-> 1, campaigns |-> 0]]

\* the texts the oracle answers to qualify_lead
EndpointQualifyTexts ==
  {Txt_Scored, Txt_Rejected, FallbackQualifyText, Txt_HugeScore, <<>>, Txt_SurrogateReasoning,
   Txt_SurrogateRejected, Txt_SurrogateAside}

\* the texts the oracle answers to generate_email
EndpointEmailTexts == {Txt_Hello, Txt_Pricing, FallbackQualifyText, <<>>, Txt_SurrogateEmail}

\* the answers of the oracle to the first client
FirstEndpointTexts == [qualify : EndpointQualifyTexts, email : EndpointEmailTexts]

\* the answers of the oracle to the second client
SecondEndpointTexts == [qualify : {Txt_Scored, Txt_SurrogateRejected}, email : {Txt_Hello}]

EndpointTexts(c) == IF c = 1 THEN FirstEndpointTexts ELSE SecondEndpointTexts

\* the ids of the requests: the lead, an id without a row and one that is
\* no SQLite INTEGER
EndpointLeadIds == {<<"1">>, <<"2">>, TwoTo63}

\* what raises in the with blocks of the endpoint
BlockFaults == {"none", "connect", "insert_interaction", "commit"}

\* the blocks of the first client's request may raise
EndpointFaults(c) == IF c = 1 THEN BlockFaults ELSE NoFault

\* the variant the second client asks for
SecondVariants == {"A"}

\* the leads a client creates
NewLeads == {NewLead}

InitEndpoint ==
  /\ Constructed(NoCredential)
  /\ CallsIdle
  /\ ParserIdle /\ GovernanceIdle /\ EscalationIdle
  /\ db \in {OneLeadDatabase(lead_data) : lead_data \in EndpointLeads}
  /\ serving = [c \in Clients |-> NoRequest]

QualifyLeadSelect(c) ==
  QualifyLeadSelectOf(c, EndpointLeadIds, IF c = 1 THEN Variants ELSE SecondVariants,
                      EndpointFaults(c))

QualifyLeadStore(c) == QualifyLeadStoreOf(c, EndpointTexts(c), EndpointFaults(c))

CreateLeadStep(c) == c /= 1 /\ CreateLeadOf(c, NewLeads, NoFault)

ImportLeadsStartStep(c) == c /= 1 /\ ImportLeadsStartOf(c, ImportFiles)

ImportLeadsStep(c) == ImportLeadsOf(c, NoFault)

DeleteLeadStep(c) == c /= 1 /\ DeleteLeadOf(c, EndpointLeadIds, NoFault)

NextEndpoint ==
  \E c \in Clients :
    \/ QualifyLeadSelect(c)
    \/ QualifyLeadStore(c)
    \/ CreateLeadStep(c)
    \/ ImportLeadsStartStep(c)
    \/ ImportLeadsStep(c)
    \/ DeleteLeadStep(c)

SpecEndpoint == InitEndpoint /\ [][NextEndpoint]_vars

-----------------------------------------------------------------------------
(* Calls of run_campaign next to the requests that write the leads and the *)
(* campaigns, with the texts of the oracle and the faults of the database  *)
(* drawn per lead                                                          *)

\* a database of three new leads and one draft campaign
SmallDatabase ==
  [leads              |-> << LeadRow(1, LeadSmall), LeadRow(2, LeadCompetitor),
                             LeadRow(3, LeadNoIndustry) >>,
   campaigns          |-> << CampaignRow(1, "B") >>,
   agent_interactions |-> <<>>,
   sqlite_sequence    |-> [leads |-> 3, campaigns |-> 1]]

\* the campaign ids of the requests: the campaign, an id without a row and
\* one that is no SQLite INTEGER
CampaignIds == {<<"1">>, <<"2">>, TwoTo63}

\* a lead_ids list of one more id than a statement has host parameters
TooManyLeadIds == <<>> \o [i \in 1..(SQLITE_MAX_VARIABLE_NUMBER + 1) |-> <<"1">>]

\* the lead_ids lists of the requests: empty, out of order, repeated, unknown,
\* with an id that is no SQLite INTEGER, and too long for one statement
LeadIdLists ==
  { <<>>, << <<"3">>, <<"1">> >>, << <<"2">>, <<"2">> >>, << <<"4">> >>,
    << <<"1">>, TwoTo63 >>, TooManyLeadIds }

\* the request bodies: without lead_ids, and with each list
CampaignRequests(ids, lists) ==
  [campaign_id : ids] \cup [campaign_id : ids, lead_ids : lists]

\* the texts the oracle answers to qualify_lead
CampaignTexts == {Txt_Scored, Txt_Rejected}

\* what raises in the first with block
SelectFaults == {"connect", "update_campaign", "commit"}

\* what raises in the with block of a lead
LeadFaults == {"connect", "update_lead", "insert_interaction", "commit"}

\* the answers of the oracle on which the processing of a lead fails: the
\* score agent.qualify_lead raises on and the reasoning the INSERT raises on
FailingTexts == {Txt_HugeScore, Txt_SurrogateReasoning}

\* what happens to a lead: the text the oracle answers and the fault of its
\* with block
LeadOutcomes ==
  [text : CampaignTexts \cup FailingTexts, fault : NoFault]
    \cup [text : {Txt_Scored}, fault : LeadFaults]

\* the requests of the first client are any
FirstRequests == CampaignRequests(CampaignIds, LeadIdLists)

\* the first block of the first client's call may raise
FirstSelectFaults == NoFault \cup SelectFaults

\* the call of the second client selects the new leads of the campaign
SecondRequests == {[campaign_id |-> <<"1">>]}

\* what happens to a lead of the second client's call
SecondOutcomes == [text : {Txt_Scored, Txt_SurrogateReasoning}, fault : NoFault]

\* the campaigns a client creates
NewCampaigns == {NewCampaign}

RunCampaignSelect(c) ==
  IF c = 1 THEN RunCampaignSelectOf(c, FirstRequests, FirstSelectFaults)
  ELSE RunCampaignSelectOf(c, SecondRequests, NoFault)

RunCampaignLead(c) == RunCampaignLeadOf(c, IF c = 1 THEN LeadOutcomes ELSE SecondOutcomes)

CreateCampaignStep(c) == c /= 1 /\ CreateCampaignOf(c, NewCampaigns, NoFault)

\* the status values of the requests: the valid ones and another one
StatusValues == ValidStatuses \cup {"archived"}

UpdateCampaignStatusStep(c) ==
  c /= 1 /\ UpdateCampaignStatusOf(c, CampaignIds, StatusValues, NoFault)

\* the lead of the request to the endpoint
SecondLeadIds == {<<"2">>}

\* the answers of the oracle to the endpoint
SecondTexts == [qualify : {Txt_Rejected}, email : {Txt_Hello}]

\* the leads a client deletes: two of the table, and an id without a row
DeletedLeadIds == {<<"2">>, <<"3">>, <<"4">>}

\* the endpoint on the second lead, next to a campaign
QualifyLeadSelectStep(c) ==
  c /= 1 /\ QualifyLeadSelectOf(c, SecondLeadIds, SecondVariants, NoFault)

QualifyLeadStoreStep(c) == c /= 1 /\ QualifyLeadStoreOf(c, SecondTexts, NoFault)

CreateNewLeadStep(c) == c /= 1 /\ CreateLeadOf(c, NewLeads, NoFault)

ImportFileStartStep(c) == c /= 1 /\ ImportLeadsStartOf(c, ImportFiles)

ImportFileStep(c) == ImportLeadsOf(c, NoFault)

DeleteAnyLeadStep(c) == c /= 1 /\ DeleteLeadOf(c, DeletedLeadIds, NoFault)

InitCampaign ==
  /\ Constructed(NoCredential)
  /\ CallsIdle
  /\ ParserIdle /\ GovernanceIdle /\ EscalationIdle
  /\ db = SmallDatabase
  /\ serving = [c \in Clients |-> NoRequest]

NextCampaign ==
  \E c \in Clients :
    \/ RunCampaignSelect(c)
    \/ RunCampaignLead(c)
    \/ CreateCampaignStep(c)
    \/ UpdateCampaignStatusStep(c)
    \/ QualifyLeadSelectStep(c)
    \/ QualifyLeadStoreStep(c)
    \/ CreateNewLeadStep(c)
    \/ ImportFileStartStep(c)
    \/ ImportFileStep(c)
    \/ DeleteAnyLeadStep(c)

SpecCampaign == InitCampaign /\ [][NextCampaign]_vars

-----------------------------------------------------------------------------------------------------------------------------------------------------
(* Sequences of calls of run_campaign made without lead_ids, also on a     *)
(* table of more new leads than one call selects.  main.py serves the      *)
(* application with uvicorn.run(app, ...): one process and one event loop, *)
(* and run_campaign is a coroutine without an await, so a call runs to its *)
(* return before the next request is handled.  A client sends a call after *)
(* its last one was answered, any number of times.                         *)

\* a database of one more new lead than the LIMIT of the selection
ManyDatabase ==
  [leads              |-> [i \in 1..(NewLeadsLimit + 1) |-> LeadRow(i, LeadSmall)],
   campaigns          |-> << CampaignRow(1, "A") >>,
   agent_interactions |-> <<>>,
   sqlite_sequence    |-> [leads |-> NewLeadsLimit + 1, campaigns |-> 1]]

\* the lead_ids lists of the requests that select the new leads
NoLeadIdLists == {<<>>}

\* the largest table on which the answers of the oracle and the faults vary
\* per lead
SmallTable == 3

\* the requests that select the new leads
NewLeadsRequests == CampaignRequests(CampaignIds, NoLeadIdLists)

\* what raises in the first with block
NewLeadsSelectFaults == {"none", "update_campaign"}

\* what happens to a lead of the small table: the oracle answers either text
\* and the INSERT may fail, also after a score the agent raises on
SmallOutcomes ==
  [text : CampaignTexts, fault : NoFault]
    \cup [text : {Txt_Scored, Txt_HugeScore}, fault : {"insert_interaction"}]

\* what happens to the first lead of a call on the large table
ManyFirstOutcomes == [text : {Txt_Scored}, fault : {"none", "insert_interaction"}]

\* what happens to its other leads
ManyOutcomes == [text : {Txt_Scored}, fault : NoFault]

\* the client whose request was answered is free to send the next one, once
\* the event loop, which runs one handler at a time, has no call in its loop
NextRequest(c) ==
  /\ \A d \in Clients : serving[d].pc /= "loop"
  /\ Answered(c)
  /\ serving' = [serving EXCEPT ![c] = NoRequest]
  /\ UNCHANGED db
  /\ ServerStep

\* a call is handled once the handler of the call before it returned: the
\* handler never awaits, and the event loop runs it to its end
RunNewLeadsSelect(c) ==
  /\ \A d \in Clients : serving[d].pc /= "loop"
  /\ RunCampaignSelectOf(c, NewLeadsRequests, NewLeadsSelectFaults)

\* on the large table the oracle answers one text, and the INSERT may fail
\* for the first lead of the call
RunNewLeadsLead(c) ==
  RunCampaignLeadOf(c, IF Len(db.leads) <= SmallTable THEN SmallOutcomes
                       ELSE IF serving[c].results = <<>> THEN ManyFirstOutcomes
                       ELSE ManyOutcomes)

InitNewLeads ==
  /\ Constructed(NoCredential)
  /\ CallsIdle
  /\ ParserIdle /\ GovernanceIdle /\ EscalationIdle
  /\ db \in {SmallDatabase, ManyDatabase}
  /\ serving = [c \in Clients |-> NoRequest]

NextNewLeads ==
  \E c \in Clients : RunNewLeadsSelect(c) \/ RunNewLeadsLead(c) \/ NextRequest(c)

SpecNewLeads == InitNewLeads /\ [][NextNewLeads]_vars
-----------------------------------------------------------------------------
(* Properties *)

\* every character of s is whitespace (also when s is empty)
Blank(s) == \A i \in 1..Len(s) : s[i] \in Whitespace

\* token occurs in text in some letter case: in the lower-cased text
ContainsAnyCase(text, token) == Contains(Lower(text), Lower(token))

\* a verdict token occurs in text in some letter case: in the upper-cased
\* text, where the letters U+0131, U+017F and U+FB01 read I, S and FI
ContainsUpperCased(text, token) == Contains(Upper(text), Upper(token))

\* the parser and qualify_lead returned on ptext, neither raised
ParserReturned == ~pout.pending /\ ~IsError(pout.parsed) /\ ~IsError(pout.qualify)

\* generate raised in invocation c, before it returned
GenerateRaised(c) == pc[c] = "raised" /\ returned[c] = NotReturned

\* the remote service answered the latest request with a well-formed completion
GotCompletion(c) ==
  last[c].kind = "response" /\ last[c].status = 200 /\ last[c].payload = "completion"

\* C1 as stated (refuted): generate never raises and always returns non-empty
\* text, whatever the remote outcomes, a blank completion included.
C1_AlwaysNonEmptyText ==
  \A c \in DOMAIN pc :
    /\ ~GenerateRaised(c)
    /\ pc[c] = "done" => Len(returned[c].text) > 0

\* C1 (amended): generate never raises and returns a text string; the text is
\* empty exactly when it is the trimmed text of a well-formed 200 completion
\* whose text is empty or whitespace-only, and non-empty in every other case.
C1_NeverRaisesEmptyOnlyForBlankCompletion ==
  \A c \in DOMAIN pc :
    /\ ~GenerateRaised(c)
    /\ pc[c] = "done" =>
         (Len(returned[c].text) = 0
            <=> (returned[c].how = "completion" /\ GotCompletion(c) /\ Blank(last[c].text)))

\* C1 witness: a whitespace-only completion came back and generate returned ""
C1_Witness ==
  \E c \in DOMAIN pc :
    /\ pc[c] = "done"
    /\ returned[c] = [how |-> "completion", text |-> <<>>]
    /\ last[c].text = Txt_Blank

\* every attempt of an enabled oracle failed, on the lead of the scenario
AllAttemptsFailedForJane(c) ==
  /\ pc[c] = "done"
  /\ input[c].op = "qualify"
  /\ input[c].lead_data = LeadJane
  /\ config.enabled
  /\ requests[c] >= 1
  /\ requests[c] = config.max_retries
  /\ completions[c] = 0

\* C2 as stated (refuted): when every remote attempt fails, Qualify on the lead
\* of the scenario returns the rule-based qualification fallback with score 100.
C2_ExhaustedGivesRuleBasedFallback ==
  \A c \in DOMAIN pc :
    AllAttemptsFailedForJane(c) =>
      /\ result[c].score = 100
      /\ result[c].qualified = TRUE
      /\ result[c].escalated = FALSE
      /\ result[c].reasoning = FallbackReasoning

\* C2 (amended): when every remote attempt fails, Qualify on the lead of the
\* scenario parses the oracle's canned qualification text: score 75,
\* qualified, not escalated, no escalation reason, and the first 200
\* characters of the canned text as reasoning.
C2_ExhaustedGivesParsedCannedText ==
  \A c \in DOMAIN pc :
    AllAttemptsFailedForJane(c) =>
      result[c] = [qualified         |-> TRUE,
                   score             |-> 75,
                   reasoning         |-> SubSeq(FallbackQualifyText, 1, 200),
                   escalated         |-> FALSE,
                   escalation_reason |-> None,
                   variant           |-> input[c].variant,
                   timestamp         |-> result[c].timestamp]

\* C2 witness: three timeouts or transport errors, then the result
C2_Witness ==
  \E c \in DOMAIN pc :
    /\ AllAttemptsFailedForJane(c)
    /\ requests[c] = 3
    /\ last[c].kind \in {"timeout", "error"}
    /\ result[c].score = 75

FallbackTexts == {FallbackQualifyText, FallbackEmailText, FallbackGenericText}

\* C3: an enabled generate makes at most max_retries requests, makes none
\* after a well-formed 200 completion, whose trimmed text it returns, and
\* returns the rule-based fallback text exactly when no request got one.
C3_BoundedAttemptsThenFallback ==
  \A c \in DOMAIN pc :
    config.enabled =>
      /\ requests[c] <= config.max_retries
      /\ pc[c] = "attempt" => requests[c] < config.max_retries
      /\ completions[c] <= 1
      /\ completions[c] = 1 =>
           /\ pc[c] \in {"done", "raised"}
           /\ GotCompletion(c)
           /\ returned[c] = [how |-> "completion", text |-> Strip(last[c].text)]
      /\ pc[c] = "done" =>
           /\ returned[c].how = "fallback" <=> completions[c] = 0
           /\ completions[c] = 0 => returned[c].text \in FallbackTexts

\* C3 witness: the last of three attempts gets a completion, after two failures
C3_Witness ==
  \E c \in DOMAIN pc :
    /\ config.enabled /\ config.max_retries = 3
    /\ pc[c] = "done"
    /\ requests[c] = 3
    /\ returned[c].how = "completion"
    /\ Len(returned[c].text) > 0
    /\ Len(returned[c].text) < Len(last[c].text)

\* C4: an absent or placeholder credential disables the oracle, and a disabled
\* oracle makes no request and returns non-empty fallback text.
C4_DisabledNoNetworkNonEmpty ==
  /\ config.api_token \in {<<>>, PlaceholderToken} => ~config.enabled
  /\ \A c \in DOMAIN pc :
       ~config.enabled =>
         /\ requests[c] = 0
         /\ pc[c] \in {"idle", "done"}
         /\ pc[c] = "done" =>
              /\ returned[c].how = "fallback"
              /\ returned[c].text \in FallbackTexts
              /\ Len(returned[c].text) > 0

\* C4 witness: the placeholder credential, a direct call with an empty prompt
C4_Witness ==
  \E c \in DOMAIN pc :
    /\ config.api_token = PlaceholderToken
    /\ pc[c] = "done"
    /\ input[c] = [op |-> "generate", prompt |-> <<>>]
    /\ requests[c] = 0
    /\ returned[c].text = FallbackGenericText

\* the score the claim states for the rule-based qualification fallback
C5_Score(lead_data) ==
  50 + (IF Get1(lead_data, "company_size")
             \in {<<"5", "0", "-", "5", "0", "0">>, <<"5", "0", "0", "-", "2", "0", "0", "0">>}
        THEN 20 ELSE 0)
     + (IF Get1(lead_data, "industry")
             \in {<<"S", "a", "a", "S">>, <<"F", "i", "n", "a", "n", "c", "e">>,
                  <<"H", "e", "a", "l", "t", "h", "c", "a", "r", "e">>,
                  <<"T", "e", "c", "h", "n", "o", "l", "o", "g", "y">>}
        THEN 20 ELSE 0)
     + (IF /\ Get1(lead_data, "contact_name") \notin {None, <<>>}
           /\ Get1(lead_data, "contact_email") \notin {None, <<>>}
        THEN 10 ELSE 0)

\* C5: when the oracle returns an empty result, Qualify returns the rule-based
\* score, qualified iff the score is at least 60, the fixed reasoning and
\* escalated = false and a timestamp, with no escalation reason.
C5_EmptyResponseRuleBased ==
  \A c \in DOMAIN pc :
    (pc[c] = "done" /\ input[c].op = "qualify" /\ returned[c].text = <<>>) =>
      result[c] = [qualified |-> C5_Score(input[c].lead_data) >= 60,
                   score     |-> C5_Score(input[c].lead_data),
                   reasoning |-> FallbackReasoning,
                   escalated |-> FALSE,
                   variant   |-> input[c].variant,
                   timestamp |-> result[c].timestamp]

\* C5 witness: an empty result for the lead without industry and with a
\* competitor in its company name, which the escalation rules would escalate
C5_Witness ==
  \E c \in DOMAIN pc :
    /\ pc[c] = "done" /\ input[c].op = "qualify" /\ returned[c].text = <<>>
    /\ input[c].lead_data = LeadNoIndustry
    /\ result[c].escalated = FALSE
    /\ result[c].score = 70

\* C6: every score the parser produces is an integer in 0..100, and so is the
\* score of every result Qualify returns, parsed or rule-based.
C6_ScoreInRange ==
  ParserReturned =>
    /\ pout.parsed.score \in 0..100
    /\ pout.qualify.score \in 0..100

\* C6 witness: the digits 15060 after the marker are clamped to 100
C6_Witness ==
  /\ ParserReturned
  /\ Contains(ptext, <<"S", "c", "o", "r", "e", ":", " ", "1", "5", "0", "6", "0">>)
  /\ pout.parsed.score = 100
  /\ pout.qualify.score = 100

\* C7: a text that contains DISQUALIFIED in any letter case is decided
\* DISQUALIFIED, whatever else it contains and whatever its score, in every
\* decision the parser returns.
C7_DisqualifiedWins ==
  (ParserReturned /\ ContainsUpperCased(ptext, DISQUALIFIED)) =>
    pout.parsed.decision = "DISQUALIFIED"

\* C7 witness: an explicit QUALIFIED verdict with a score of 90, and
\* Disqualified later in the text
C7_Witness ==
  /\ ParserReturned
  /\ OccursAt(ptext, <<" ", "Q", "U", "A", "L", "I", "F", "I", "E", "D", "\n">>, 26)
  /\ Contains(ptext, <<"D", "i", "s", "q", "u", "a", "l", "i", "f", "i", "e", "d">>)
  /\ pout.parsed.score = 90
  /\ pout.parsed.decision = "DISQUALIFIED"

\* C8: a text that contains neither token in any letter case is decided
\* QUALIFIED exactly when its score is at least 60, in every decision the
\* parser returns.
C8_NoTokenDecidedByScore ==
  (/\ ParserReturned
   /\ ~ContainsUpperCased(ptext, QUALIFIED)
   /\ ~ContainsUpperCased(ptext, DISQUALIFIED)) =>
    (pout.parsed.decision = "QUALIFIED" <=> pout.parsed.score >= 60)

\* C8 witness: no token and a score of exactly 60
C8_Witness ==
  /\ ParserReturned
  /\ ~ContainsUpperCased(ptext, QUALIFIED)
  /\ pout.parsed.score = 60
  /\ pout.parsed.decision = "QUALIFIED"

\* C9: approved iff no issue is critical; warnings never make approved false.
C9_ApprovedIffNoCritical ==
  ~gout.pending =>
    /\ gout.approved <=> (\A i \in DOMAIN gout.issues : gout.issues[i].severity /= "critical")
    /\ (\A i \in DOMAIN gout.issues : gout.issues[i].severity = "warning") => gout.approved

\* C9 witness: both warnings together, and the email is approved
C9_Witness ==
  /\ ~gout.pending
  /\ {gout.issues[i].rule : i \in DOMAIN gout.issues} = {"max_length", "missing_subject"}
  /\ gout.approved

\* the pricing keywords of the claim
C10_Keywords ==
  { <<"p", "r", "i", "c", "e">>, <<"p", "r", "i", "c", "i", "n", "g">>, <<"c", "o", "s", "t">>,
    <<"$">>, <<"d", "o", "l", "l", "a", "r">>, <<"p", "a", "y", "m", "e", "n", "t">>,
    <<"f", "e", "e">> }

\* C10: an email with a pricing keyword in any letter case gets exactly one
\* critical no_pricing_discussion issue, and the length rule and the subject
\* rule are evaluated all the same.
C10_PricingOneCriticalIssue ==
  (~gout.pending /\ \E k \in C10_Keywords : ContainsAnyCase(gtext, k)) =>
    /\ Cardinality({i \in DOMAIN gout.issues :
                      /\ gout.issues[i].rule = "no_pricing_discussion"
                      /\ gout.issues[i].severity = "critical"}) = 1
    /\ Len(gtext) > 1000 <=> \E i \in DOMAIN gout.issues : gout.issues[i].rule = "max_length"
    /\ (\A p \in 1..Len(gtext) : ~SubjectMatchAt(gtext, p))
         <=> \E i \in DOMAIN gout.issues : gout.issues[i].rule = "missing_subject"

\* C10 witness: two keywords match, the text is over-long and has no subject
C10_Witness ==
  /\ ~gout.pending
  /\ Contains(gtext, <<"P", "r", "i", "c", "i", "n", "g">>)
  /\ Contains(gtext, <<"$">>)
  /\ Len(gtext) > 1000
  /\ Len(gout.issues) = 3


\* the competitor names of the claim
C11_Names ==
  { <<"s", "a", "l", "e", "s", "f", "o", "r", "c", "e">>, <<"h", "u", "b", "s", "p", "o", "t">>,
    <<"o", "u", "t", "r", "e", "a", "c", "h">>, <<"s", "a", "l", "e", "s", "l", "o", "f", "t">> }

\* the company name of a lead as a text: empty when the lead has none
C11_CompanyName(lead_data) ==
  IF "company_name" \in DOMAIN lead_data /\ lead_data.company_name /= None
  THEN lead_data.company_name ELSE <<>>

\* the field is absent from the lead, None or empty
C11_Absent(lead_data, key) == key \notin DOMAIN lead_data \/ lead_data[key] \in {None, <<>>}

\* C11: the escalation rules escalate iff a competitor name occurs, in any
\* letter case, in the company name or in the reasoning, or industry or
\* company_size is absent or empty; the decision plays no part.
C11_EscalatedIffCompetitorOrMissing ==
  ~eout.pending =>
    (eout.escalated <=>
       \/ \E n \in C11_Names :
            \/ ContainsAnyCase(C11_CompanyName(ein.lead_data), n)
            \/ ContainsAnyCase(ein.reasoning, n)
       \/ C11_Absent(ein.lead_data, "industry")
       \/ C11_Absent(ein.lead_data, "company_size"))

\* C11 witness: a qualified lead without industry and without any competitor
\* name is escalated
C11_Witness ==
  /\ ~eout.pending
  /\ ein.lead_data = LeadAcmeNoIndustry
  /\ ein.decision = "QUALIFIED"
  /\ ein.reasoning = <<"f", "i", "t">>
  /\ eout.escalated

\* C12: qualified is true exactly when the decision is QUALIFIED, on the
\* rule-based path exactly when the score is at least 60, whether or not the
\* result is escalated.
C12_QualifiedIffDecision ==
  ParserReturned =>
    /\ Truthy(ptext) => (pout.qualify.qualified <=> pout.parsed.decision = "QUALIFIED")
    /\ ~Truthy(ptext) => (pout.qualify.qualified <=> pout.qualify.score >= 60)

\* C12 witness: a QUALIFIED verdict for the lead without industry gives a
\* result that is both qualified and escalated
C12_Witness ==
  /\ ParserReturned
  /\ plead.lead_data = LeadNoIndustry
  /\ Contains(ptext, QUALIFIED)
  /\ ~ContainsAnyCase(ptext, DISQUALIFIED)
  /\ pout.qualify.qualified
  /\ pout.qualify.escalated

\* a result without its timestamp
C13_ExceptTimestamp(r) == [k \in DOMAIN r \ {"timestamp"} |-> r[k]]

\* the fields of a Qualify result
C13_Fields ==
  {"qualified", "score", "reasoning", "escalated", "escalation_reason", "variant", "timestamp"}

\* the invocations c and d are the same Qualify: the same lead, the same
\* variant and the same text returned by the oracle
C13_SameQualify(c, d) ==
  /\ pc[c] = "done" /\ pc[d] = "done"
  /\ input[c].op = "qualify"
  /\ input[d] = input[c]
  /\ returned[d].text = returned[c].text

C16_Slot(c) ==
  <<pc[c], input[c], attempt[c], requests[c], last[c], completions[c], sleeps[c], returned[c],
    result[c]>>

\* the text generate returns for an invocation run alone with these remote
\* outcomes: the trimmed completion if one came, the fallback text otherwise
C16_AloneText(cfg, in, completed, outcome) ==
  IF cfg.enabled /\ cfg.max_retries > 0 /\ completed = 1
  THEN Strip(outcome.text)
  ELSE FallbackResponse(PromptOf(in))

\* C16: no step writes the oracle configuration; a step changes the state of
\* one invocation only; and the result of an invocation is the one its own
\* input and its own remote outcomes give.
C16_NoInterference ==
  [][/\ config' = config
     /\ \A c \in DOMAIN pc, d \in DOMAIN pc :
          (c /= d /\ C16_Slot(c)' /= C16_Slot(c)) => C16_Slot(d)' = C16_Slot(d)
     /\ \A c \in DOMAIN pc :
          (pc[c] /= "done" /\ pc'[c] = "done") =>
            \E in \in {input'[c]} :
              \E text \in {C16_AloneText(config, in, completions'[c], last'[c])} :
                \E now \in Timestamps :
                  result'[c] = Timestamped(in, Finish(in, text), now)]_vars

\* C16 witness: one invocation is inside its retry loop after a failed
\* request while another one has completed after a retry, and the
\* configuration is the one of the construction
C16_Witness ==
  /\ config = LLMServiceInit(Environ(<<"h", "f", "_", "x">>, MaxConcurrentRetries))
  /\ pc[1] = "attempt" /\ requests[1] = 1 /\ input[1].op = "email"
  /\ pc[2] = "done" /\ requests[2] = 2 /\ input[2].op = "qualify"
  /\ returned[2].how = "completion"

\* the text GenerateEmail returns for the oracle's text
C14_EmailText(lead_data, text) == IF text = <<>> THEN FallbackEmail(lead_data) ELSE text

\* C14: the result of GenerateEmail carries the oracle's text, or the fixed
\* fallback email when that text is empty, together with the verdict and the
\* issues of the governance rules on that very text; it has escalated = true
\* exactly when the verdict is not approved; and the invocation made one call
\* of the oracle only.
C14_GovernedAndMarked ==
  \A c \in DOMAIN pc :
    (pc[c] = "done" /\ input[c].op = "email") =>
      LET email == C14_EmailText(input[c].lead_data, returned[c].text)
      IN  /\ result[c].email_content = email
          /\ result[c].governance_approved = CheckGovernance(email).approved
          /\ result[c].governance_issues = CheckGovernance(email).issues
          /\ "escalated" \in DOMAIN result[c] <=> ~result[c].governance_approved
          /\ "escalated" \in DOMAIN result[c] => result[c].escalated = TRUE
          /\ ~result[c].governance_approved => Len(result[c].governance_issues) > 0
          /\ completions[c] <= 1
          /\ requests[c] <= config.max_retries
          /\ returned[c].text = <<>> => completions[c] = 1

\* C14 witness: the oracle's email talks about pricing; the result reports
\* the critical issue and is marked escalated
C14_Witness ==
  \E c \in DOMAIN pc :
    /\ pc[c] = "done" /\ input[c].op = "email"
    /\ returned[c] = [how |-> "completion", text |-> Txt_Pricing]
    /\ result[c].email_content = Txt_Pricing
    /\ ~result[c].governance_approved
    /\ result[c].governance_issues = <<PricingIssue>>
    /\ result[c].escalated

\* the Qualify result of an answered request to the endpoint
C15_Qualify(r) == QualifyLead(r.use_variant, r.lead_data, r.qualify_text)

\* the governance verdict on the email GenerateEmail returns for the request
C15_Approved(r) ==
  CheckGovernance(IF r.email_text = <<>> THEN FallbackEmail(r.lead_data)
                  ELSE r.email_text).approved

\* what the claim states of a request r answered 200 with Qualify result q,
\* the interaction rows being rows before the step and stored after it
C15_Governed(r, q, rows, stored) ==
  /\ r.result.email_requested <=> (q.qualified /\ ~q.escalated)
  /\ r.result.response.email_content /= None <=>
       (r.result.email_requested /\ C15_Approved(r))
  /\ r.result.response.email_content /= None =>
       CheckGovernance(r.result.response.email_content).approved
  /\ (r.result.email_requested /\ ~C15_Approved(r)) =>
       /\ r.result.response.email_content = None
       /\ r.result.response.escalated
  /\ Len(stored) = Len(rows) + 1
  /\ SubSeq(stored, 1, Len(rows)) = rows
  /\ IntToStr(stored[Len(stored)].lead_id) = r.lead_id
  /\ stored[Len(stored)].email_content = r.result.response.email_content
  /\ stored[Len(stored)].escalated = r.result.response.escalated

\* C15: the endpoint requests an email only for a qualified, not escalated
\* lead; the response and the interaction row it stores carry email content
\* only if that email was requested and approved; when governance rejects it
\* they carry no email content and escalated = true; a request that is not
\* answered 200 stores nothing.
C15_EmailOnlyIfQualifiedAndApproved ==
  [][\A c \in Clients :
       (serving[c].pc = "agent" /\ serving'[c].pc = "done") =>
         \E r \in {serving'[c]} :
           IF r.result.status_code = 200
           THEN C15_Governed(r, C15_Qualify(r), db.agent_interactions, db'.agent_interactions)
           ELSE db' = db]_vars

\* C15 witness: a qualified lead that Qualify did not escalate gets an email
\* about pricing; it is withheld and the lead is escalated, in the response
\* and in the row stored
C15_Witness ==
  /\ Answered(1)
  /\ serving[1].handler = "qualify_lead"
  /\ serving[1].result.status_code = 200
  /\ serving[1].lead_data.company_name = LeadSales.company_name
  /\ serving[1].qualify_text = Txt_Scored
  /\ serving[1].email_text = Txt_Pricing
  /\ ~C15_Qualify(serving[1]).escalated
  /\ serving[1].result.email_requested
  /\ serving[1].result.response.qualified
  /\ serving[1].result.response.email_content = None
  /\ serving[1].result.response.escalated
  /\ Len(db.agent_interactions) = 1
  /\ db.agent_interactions[1].email_content = None
  /\ db.agent_interactions[1].escalated

\* the failures of the claim: a status outside 2xx other than 503, a timeout,
\* a transport error
C17_Failed(o) ==
  \/ o.kind = "response" /\ o.status \notin 200..299 /\ o.status /= 503
  \/ o.kind \in {"timeout", "error"}

\* C17: a request that fails in one of these ways at attempt index a is
\* followed by one wait of 2^a if a < max_retries - 1, and by no wait and the
\* fallback text if it was the final attempt.
C17_ExponentialBackoff ==
  [][\A c \in DOMAIN pc :
       (requests'[c] = requests[c] + 1 /\ C17_Failed(last'[c])) =>
         /\ attempt[c] < config.max_retries - 1 =>
              /\ sleeps'[c] = sleeps[c] \o <<2 ^ attempt[c]>>
              /\ pc'[c] = "attempt"
         /\ attempt[c] >= config.max_retries - 1 =>
              /\ sleeps'[c] = sleeps[c]
              /\ pc'[c] = "done"
              /\ returned'[c].how = "fallback"]_vars

\* C17 witness: with max_retries = 3 three failed requests, waits of 1 and
\* of 2, no third wait, and the fallback text
C17_Witness ==
  \E c \in DOMAIN pc :
    /\ config.max_retries = 3
    /\ pc[c] = "done"
    /\ requests[c] = 3
    /\ C17_Failed(last[c])
    /\ sleeps[c] = <<1, 2>>
    /\ returned[c].how = "fallback"

\* C18: a 503 response is followed by one wait of exactly 10, whatever the
\* attempt index, and the loop goes on to its next attempt if one is left.
C18_ModelLoadingFixedWait ==
  [][\A c \in DOMAIN pc :
       (/\ requests'[c] = requests[c] + 1
        /\ last'[c].kind = "response" /\ last'[c].status = 503) =>
         /\ sleeps'[c] = sleeps[c] \o <<10>>
         /\ attempt'[c] = attempt[c] + 1
         /\ attempt[c] + 1 < config.max_retries => pc'[c] = "attempt"]_vars

\* C18 witness: a timeout at attempt 0 and a 503 at attempt 1 give waits of 1
\* and of 10, not of 2, and the third attempt is about to be made
C18_Witness ==
  \E c \in DOMAIN pc :
    /\ pc[c] = "attempt"
    /\ attempt[c] = 2
    /\ requests[c] = 2
    /\ last[c].status = 503
    /\ sleeps[c] = <<1, 10>>

\* the marker of the claim in any letter case at position i of s, followed by
\* optional whitespace and a digit
C19_MarkerAt(s, i) ==
  /\ i + 5 <= Len(s)
  /\ \A j \in 1..6 : Lower(<<s[i + j - 1]>>) = <<(<<"s", "c", "o", "r", "e", ":">>)[j]>>
  /\ LET d == SkipWhile(s, i + 6, Whitespace)
     IN  d <= Len(s) /\ s[d] \in DigitSet

\* the number after the leftmost marker in any letter case
C19_Number(s) ==
  LET i == CHOOSE k \in 1..Len(s) :
             C19_MarkerAt(s, k) /\ \A m \in 1..(k - 1) : ~C19_MarkerAt(s, m)
      d == SkipWhile(s, i + 6, Whitespace)
  IN  ParseInt(SubSeq(s, d, SkipWhile(s, d, DigitSet) - 1))

\* C19 as stated (refuted): for every letter case of the marker followed by
\* optional whitespace and digits the parser gives a score, which is the
\* number clamped to 0..100, and 50 only when the text has no such marker.
C19_AnyCaseMarkerGivesScore ==
  ~pout.pending =>
    /\ ~IsError(pout.parsed)
    /\ pout.parsed.score =
         IF \E i \in 1..Len(ptext) : C19_MarkerAt(ptext, i)
         THEN IF C19_Number(ptext) > 100 THEN 100 ELSE C19_Number(ptext)
         ELSE 50

\* what the parser does when it returns: the marker is found with its first
\* letter in either case and the rest in lower case only; any other casing is
\* no marker
C19_FirstLetterCaseOnly ==
  ParserReturned =>
    pout.parsed.score =
      IF \E i \in 1..Len(ptext) :
           ptext[i] \in {"S", "s"} /\ OccursAt(ptext, <<"c", "o", "r", "e", ":">>, i + 1)
                                   /\ C19_MarkerAt(ptext, i)
      THEN Clamp(ParseInt(ScoreGroup(ptext)))
      ELSE 50

\* C19 failing input: SCORE: 60 gets the default score
C19_Witness ==
  /\ ParserReturned
  /\ ptext = <<"S", "C", "O", "R", "E", ":", " ", "6", "0">>
  /\ pout.parsed.score = 50
  /\ pout.parsed.decision = "DISQUALIFIED"

\* the prompt of the invocation mentions email or message, in any letter case
C20_MentionsEmail(c) ==
  \/ input[c].op = "email"
  \/ /\ input[c].op = "generate"
     /\ \/ ContainsAnyCase(input[c].prompt, <<"e", "m", "a", "i", "l">>)
        \/ ContainsAnyCase(input[c].prompt, <<"m", "e", "s", "s", "a", "g", "e">>)

\* C20 as stated (refuted): when the oracle answers from its rule-based
\* fallback a prompt that mentions email or message, every prompt of
\* GenerateEmail included, the text is the canned email template with its
\* subject line.
C20_EmailPromptGetsEmailTemplate ==
  \A c \in DOMAIN pc :
    (pc[c] = "done" /\ returned[c].how = "fallback" /\ C20_MentionsEmail(c)) =>
      /\ returned[c].text = FallbackEmailText
      /\ ContainsAnyCase(returned[c].text, <<"s", "u", "b", "j", "e", "c", "t", ":">>)

\* what the fallback does: the email template only for a prompt that mentions
\* email or message and neither qualify nor score; both email prompts mention
\* the score, so GenerateEmail gets the canned qualification text
C20_ScoreMentionWins ==
  \A c \in DOMAIN pc :
    (pc[c] = "done" /\ returned[c].how = "fallback" /\ C20_MentionsEmail(c)) =>
      /\ input[c].op = "email" => returned[c].text = FallbackQualifyText
      /\ input[c].op = "generate" =>
           (returned[c].text = FallbackEmailText
              <=> /\ ~ContainsAnyCase(input[c].prompt, <<"s", "c", "o", "r", "e">>)
                  /\ ~ContainsAnyCase(input[c].prompt, <<"q", "u", "a", "l", "i", "f", "y">>))

\* C20 failing input: GenerateEmail with the oracle disabled returns the
\* canned qualification text as the email, approved with a missing subject
C20_Witness ==
  \E c \in DOMAIN pc :
    /\ ~config.enabled
    /\ pc[c] = "done" /\ input[c].op = "email"
    /\ returned[c] = [how |-> "fallback", text |-> FallbackQualifyText]
    /\ result[c].email_content = FallbackQualifyText
    /\ result[c].governance_approved
    /\ result[c].governance_issues = <<SubjectIssue>>

\* the positions of the text at which a reasoning marker stands, first letter
\* in either case, with at least one character after it
C21_Markers(s) ==
  {i \in 1..Len(s) :
     /\ s[i] \in {"R", "r"}
     /\ OccursAt(s, <<"e", "a", "s", "o", "n", "i", "n", "g", ":">>, i + 1)
     /\ i + 10 <= Len(s)}

\* the least and the greatest element of a set of positions
C21_Min(S) == CHOOSE k \in S : \A m \in S : k <= m

C21_Max(S) == CHOOSE k \in S : \A m \in S : m <= k

\* the reasoning of a text with a marker: from the first character that is no
\* whitespace after the leftmost marker, on whatever line it stands, to the
\* last character that is no whitespace before the next line feed; empty
\* when only whitespace follows the marker
C21_MarkedReasoning(s) ==
  LET after == {k \in (C21_Min(C21_Markers(s)) + 10)..Len(s) : s[k] \notin Whitespace}
      first == C21_Min(after)
      feeds == {k \in first..Len(s) : s[k] = "\n"} \cup {Len(s) + 1}
      black == {k \in first..(C21_Min(feeds) - 1) : s[k] \notin Whitespace}
  IN  IF after = {} THEN <<>> ELSE SubSeq(s, first, C21_Max(black))

\* the reasoning the parser is to give for a text
C21_Reasoning(s) ==
  IF C21_Markers(s) = {}
  THEN SubSeq(s, 1, IF Len(s) < 200 THEN Len(s) ELSE 200)
  ELSE C21_MarkedReasoning(s)

\* C21 as stated (refuted): the length of the reasoning stays below a bound
\* that does not depend on the oracle text.  Whatever the bound, a marker
\* followed by a longer line exceeds it; the lines of the texts have up to
\* MaxLineLength characters, and the bound is the greatest one below that.
C21_ReasoningBelowLineLength ==
  ParserReturned =>
    /\ Len(pout.parsed.reasoning) < MaxLineLength
    /\ Len(pout.qualify.reasoning) < MaxLineLength

\* C21 (amended): without a marker followed by a character the reasoning is
\* the first 200 characters of the text.  With one, it starts at the first
\* character that is no whitespace after the leftmost marker, on the marker's
\* line or on a later one, and runs to the end of that line, trimmed; it is
\* empty when only whitespace follows the marker.  It holds no line feed, and
\* it is as long as that line is.  The result of qualify_lead carries the
\* reasoning of the parser, and the fixed literal for an empty text.
C21_ReasoningPrefixOrLine ==
  ParserReturned =>
    /\ pout.parsed.reasoning = C21_Reasoning(ptext)
    /\ pout.qualify.reasoning = (IF ptext = <<>> THEN FallbackReasoning ELSE C21_Reasoning(ptext))
    /\ C21_Markers(ptext) = {} => Len(pout.parsed.reasoning) <= 200
    /\ C21_Markers(ptext) /= {} =>
         \A i \in DOMAIN pout.parsed.reasoning : pout.parsed.reasoning[i] /= "\n"

\* C21 witness: a marker followed by a line of MaxLineLength characters and a
\* second line; the reasoning is the whole first line, longer than the 200
\* characters kept without a marker
C21_Witness ==
  /\ ParserReturned
  /\ ptext = <<"R", "e", "a", "s", "o", "n", "i", "n", "g", ":", " ">> \o LongLine
               \o <<"\n", "R", "e", "a", "s", "o", "n", "i", "n", "g", ":", " ", "f", "i", "t",
                    " ", "\n">>
  /\ pout.parsed.reasoning = LongLine
  /\ pout.qualify.reasoning = LongLine
  /\ Len(pout.qualify.reasoning) > 200

\* the competitor names of the claim, in list order
C22_Order ==
  << <<"s", "a", "l", "e", "s", "f", "o", "r", "c", "e">>, <<"h", "u", "b", "s", "p", "o", "t">>,
     <<"o", "u", "t", "r", "e", "a", "c", "h">>, <<"s", "a", "l", "e", "s", "l", "o", "f", "t">> >>

\* the competitor rule fires for the k-th name
C22_Fires(k) ==
  \/ ContainsAnyCase(C11_CompanyName(ein.lead_data), C22_Order[k])
  \/ ContainsAnyCase(ein.reasoning, C22_Order[k])

\* the missing-data rule fires
C22_Missing == C11_Absent(ein.lead_data, "industry") \/ C11_Absent(ein.lead_data, "company_size")

\* C22: when the competitor rule and the missing-data rule both fire the
\* result is escalated with the missing-data reason; when only the competitor
\* rule fires the reason names the first competitor of the list that matches.
C22_LastReasonWins ==
  ~eout.pending =>
    /\ ((\E k \in 1..4 : C22_Fires(k)) /\ C22_Missing) =>
         /\ eout.escalated
         /\ eout.reason = <<"M", "i", "s", "s", "i", "n", "g", " ", "c", "r", "i", "t", "i", "c",
                            "a", "l", " ", "l", "e", "a", "d", " ", "d", "a", "t", "a">>
    /\ \A k \in 1..4 :
         (C22_Fires(k) /\ (\A m \in 1..(k - 1) : ~C22_Fires(m)) /\ ~C22_Missing) =>
           /\ eout.escalated
           /\ eout.reason = <<"C", "o", "m", "p", "e", "t", "i", "t", "o", "r", " ", "'">>
                              \o C22_Order[k]
                              \o <<"'", " ", "m", "e", "n", "t", "i", "o", "n", "e", "d">>

\* C22 witness: the lead without industry whose company name holds a
\* competitor is escalated with the missing-data reason
C22_Witness ==
  /\ ~eout.pending
  /\ ein.lead_data = LeadNoIndustry
  /\ ein.reasoning = <<"f", "i", "t">>
  /\ C22_Fires(1)
  /\ eout.escalated
  /\ eout.reason = MissingDataReason

\* every request the invocation made so far was answered 503: each of them,
\* and nothing else, was followed by a wait of 10
C23_AllLoading(c) == sleeps[c] = [i \in 1..requests[c] |-> 10]

\* C23: when every request so far was answered 503 and the next one is too,
\* that request is followed by a wait of 10 as well, the loop goes on while
\* fewer than max_retries requests were made, and after exactly max_retries
\* requests generate returns the fallback text.
C23_ModelLoadingConsumesAttempts ==
  [][\A c \in DOMAIN pc :
       (/\ C23_AllLoading(c)
        /\ requests'[c] = requests[c] + 1
        /\ last'[c].kind = "response" /\ last'[c].status = 503) =>
         /\ C23_AllLoading(c)'
         /\ requests'[c] <= config.max_retries
         /\ requests'[c] < config.max_retries => pc'[c] = "attempt"
         /\ requests'[c] = config.max_retries =>
              /\ pc'[c] = "done"
              /\ returned'[c].how = "fallback"
              /\ returned'[c].text \in FallbackTexts]_vars

\* C23 witness: three requests answered 503, a wait of 10 after each of them,
\* then the fallback text
C23_Witness ==
  \E c \in DOMAIN pc :
    /\ config.max_retries = 3
    /\ pc[c] = "done"
    /\ requests[c] = 3
    /\ last[c].status = 503
    /\ sleeps[c] = <<10, 10, 10>>
    /\ returned[c].how = "fallback"

\* a 200 response whose payload has no "choices" key or an empty choices list
C24_NoCompletion(o) ==
  o.kind = "response" /\ o.status = 200 /\ o.payload \in {"no_choices", "empty_choices"}

\* C24: a 200 response without a completion counts as a failed attempt with no
\* wait: the next attempt follows at once while one is left, and after the
\* final attempt generate returns the fallback text.
C24_NoCompletionNoWait ==
  [][\A c \in DOMAIN pc :
       (requests'[c] = requests[c] + 1 /\ C24_NoCompletion(last'[c])) =>
         /\ attempt'[c] = attempt[c] + 1
         /\ completions'[c] = completions[c]
         /\ sleeps'[c] = sleeps[c]
         /\ attempt'[c] < config.max_retries =>
              pc'[c] = "attempt" /\ returned'[c] = NotReturned
         /\ attempt'[c] >= config.max_retries =>
              /\ pc'[c] = "done"
              /\ returned'[c].how = "fallback"
              /\ returned'[c].text \in FallbackTexts]_vars

\* C24 witness: generate returned the fallback after two or more requests, the
\* last answered 200 with an empty choices list, and never waited
C24_Witness ==
  \E c \in DOMAIN pc :
    /\ pc[c] = "done"
    /\ requests[c] >= 2
    /\ last[c].status = 200 /\ last[c].payload = "empty_choices"
    /\ sleeps[c] = <<>>
    /\ returned[c].how = "fallback"

\* generate returned the fallback text to a qualification: the oracle is
\* disabled or every attempt failed
C25_QualifiedOnFallback(c) ==
  /\ pc[c] = "done"
  /\ input[c].op = "qualify"
  /\ returned[c].how = "fallback"

\* the lead has an industry and a size, and no competitor in its company name
C25_PlainLead(lead_data) ==
  /\ ~C11_Absent(lead_data, "industry")
  /\ ~C11_Absent(lead_data, "company_size")
  /\ \A name \in C11_Names : ~Contains(Lower(C11_CompanyName(lead_data)), name)

\* C25: on the fallback text, Qualify with either variant on a lead with an
\* industry, a size and no competitor in its company name returns score 75,
\* qualified and not escalated; its reasoning is the first 200 characters of
\* the fallback text, which hold no competitor name.
C25_FallbackQualifies ==
  \A c \in DOMAIN pc :
    (C25_QualifiedOnFallback(c) /\ C25_PlainLead(input[c].lead_data)) =>
      /\ returned[c].text = FallbackQualifyText
      /\ result[c].score = 75
      /\ result[c].qualified = TRUE
      /\ result[c].escalated = FALSE
      /\ result[c].escalation_reason = None
      /\ result[c].reasoning = SubSeq(FallbackQualifyText, 1, 200)
      /\ \A name \in C11_Names : ~Contains(Lower(result[c].reasoning), name)

\* C25 witness: variant B on the small retail lead with the oracle disabled
C25_Witness ==
  \E c \in DOMAIN pc :
    /\ C25_QualifiedOnFallback(c)
    /\ ~config.enabled
    /\ input[c].variant = "B"
    /\ input[c].lead_data = LeadSmall
    /\ result[c].score = 75 /\ result[c].qualified /\ ~result[c].escalated
    /\ Len(returned[c].text) > 200
    /\ Contains(Lower(returned[c].text), <<"o", "u", "t", "r", "e", "a", "c", "h">>)

\* the oracle returned an empty result to GenerateEmail
C28_EmptyToEmail(c) ==
  /\ pc[c] = "done"
  /\ input[c].op = "email"
  /\ returned[c].text = <<>>

\* C28: when the oracle returns an empty result to GenerateEmail, the result
\* carries the fallback email of the lead and governance approves it, with no
\* critical issue, whatever the lead's fields are.
C28_FallbackEmailApproved ==
  \A c \in DOMAIN pc :
    C28_EmptyToEmail(c) =>
      /\ result[c].email_content = FallbackEmail(input[c].lead_data)
      /\ result[c].governance_approved = TRUE
      /\ \A i \in 1..Len(result[c].governance_issues) :
           result[c].governance_issues[i].severity /= "critical"
      /\ "escalated" \notin DOMAIN result[c]

\* C28 case: the fallback email of a lead whose company name holds "cost" is
\* rejected by the pricing rule and marked escalated
C28_Witness ==
  \E c \in DOMAIN pc :
    /\ C28_EmptyToEmail(c)
    /\ input[c].lead_data = LeadCostco
    /\ result[c].email_content = FallbackEmail(LeadCostco)
    /\ result[c].governance_approved = FALSE
    /\ "escalated" \in DOMAIN result[c] /\ result[c].escalated

\* the rows of a table
C26_Rows(table) == {table[i] : i \in DOMAIN table}

\* the rows a request selects from the data: the rows whose id is listed in
\* lead_ids, or else the NewLeadsLimit first rows with status 'new'
C26_Selected(data, request) ==
  LET new == {row \in C26_Rows(data.leads) : row.status = "new"}
  IN  IF "lead_ids" \in DOMAIN request /\ Len(request.lead_ids) > 0
      THEN {row \in C26_Rows(data.leads) :
              \E k \in DOMAIN request.lead_ids : request.lead_ids[k] = IntToStr(row.id)}
      ELSE {row \in new : Cardinality({other \in new : other.id < row.id}) < NewLeadsLimit}

\* the entry reports a failure
C26_IsError(entry) == DOMAIN entry = {"lead_id", "error"}

\* the statements of the first block cannot be bound: the campaign id or an
\* id of lead_ids is no SQLite INTEGER, or lead_ids holds more ids than a
\* statement has host parameters
C26_Unselectable(request) ==
  \/ IntOverflows(request.campaign_id)
  \/ /\ "lead_ids" \in DOMAIN request
     /\ \/ Len(request.lead_ids) > SQLITE_MAX_VARIABLE_NUMBER
        \/ \E k \in DOMAIN request.lead_ids : IntOverflows(request.lead_ids[k])

\* the first block of the call that is now r, on the data that were old and
\* are new.  A call answered 200 or going on is one on an existing campaign
\* whose statements could be bound: the leads it holds are the selected rows
\* in the order of their ids, and the campaign is active.  The block that
\* raised answers 404 or 500 alone and leaves the data as they were, the
\* status of the campaign included; 404 is the answer only when there is no
\* such campaign, so on an existing campaign the block that raised answers 500
C26_SelectionStep(r, old, new) ==
  r.handler = "run_campaign" =>
    IF "leads" \in DOMAIN r
    THEN /\ ~C26_Unselectable(r.request)
         /\ \E i \in DOMAIN old.campaigns :
              IntToStr(old.campaigns[i].id) = r.request.campaign_id
         /\ C26_Rows(r.leads) = C26_Selected(old, r.request)
         /\ \A i, j \in DOMAIN r.leads : i < j => r.leads[i].id < r.leads[j].id
         /\ r.results = <<>>
         /\ new.leads = old.leads /\ new.agent_interactions = old.agent_interactions
         /\ Len(new.campaigns) = Len(old.campaigns)
         /\ \A i \in DOMAIN old.campaigns :
              new.campaigns[i] =
                IF IntToStr(old.campaigns[i].id) = r.request.campaign_id
                THEN [old.campaigns[i] EXCEPT !.status = "active"]
                ELSE old.campaigns[i]
    ELSE /\ r.pc = "done"
         /\ r.response \in {[status_code |-> 404], [status_code |-> 500]}
         /\ r.response.status_code = 404 =>
              ~\E i \in DOMAIN old.campaigns :
                 IntToStr(old.campaigns[i].id) = r.request.campaign_id
         /\ new = old

\* the call r has answered exactly when it has an entry for every lead it
\* selected, and then with these entries and their number
C26_Progress(r) ==
  /\ r.pc = "done" <=> Len(r.results) = Len(r.leads)
  /\ r.pc = "loop" <=> Len(r.results) < Len(r.leads)
  /\ r.pc = "done" =>
       r.response = [status_code |-> 200, campaign_id |-> r.request.campaign_id,
                     leads_processed |-> Len(r.leads), results |-> r.results]

\* one iteration of the loop of the call that was r and is next, on the data
\* that were old and are new: an entry for the next selected lead is added;
\* with an error entry the data are unchanged, otherwise the row of the lead
\* has its status and its score, one interaction row is added and nothing
\* else changes
C26_LeadStep(r, next, old, new) ==
  LET lead == r.leads[Len(r.results) + 1]
      entry == next.results[Len(next.results)]
  IN  /\ next.leads = r.leads
      /\ Len(next.results) = Len(r.results) + 1
      /\ SubSeq(next.results, 1, Len(r.results)) = r.results
      /\ entry.lead_id = lead.id
      /\ C26_Progress(next)
      /\ IF C26_IsError(entry) THEN new = old
         ELSE /\ DOMAIN entry = {"lead_id", "company_name", "qualified", "score", "escalated"}
              /\ entry.company_name = lead.company_name
              /\ Len(new.leads) = Len(old.leads)
              /\ \A i \in DOMAIN old.leads :
                   new.leads[i] =
                     IF old.leads[i].id = lead.id
                     THEN [old.leads[i] EXCEPT
                             !.status = IF entry.qualified THEN "qualified" ELSE "disqualified",
                             !.score = entry.score]
                     ELSE old.leads[i]
              /\ new.campaigns = old.campaigns
              /\ Len(new.agent_interactions) = Len(old.agent_interactions) + 1
              /\ SubSeq(new.agent_interactions, 1, Len(old.agent_interactions))
                   = old.agent_interactions
              /\ \E row \in {new.agent_interactions[Len(new.agent_interactions)]} :
                   /\ row.lead_id = lead.id
                   /\ IntToStr(row.campaign_id) = r.request.campaign_id
                   /\ row.decision = IF entry.qualified THEN "qualified" ELSE "disqualified"
                   /\ row.escalated = entry.escalated

\* C26: a run_campaign call whose first block raised (no such campaign, an
\* id that cannot be bound, too many ids, a fault) answers 404 or 500 and
\* leaves the data as they were.  Otherwise
\* a run_campaign call on an existing campaign holds the selected leads
\* in the order of the selection and adds one entry per lead in that order;
\* it answers once every selected lead has its entry, with leads_processed
\* their number; the iteration of a lead that fails adds an error entry for
\* that lead and leaves the data as they were, the status and the
\* interaction rows of that lead and the updates of the leads before it
\* included, and the loop goes on with the next lead.
C26_OneEntryPerLead ==
  [][\A c \in Clients :
       /\ (serving[c].pc = "idle" /\ serving'[c].pc /= "idle") =>
            \E next \in {serving'[c]} :
              C26_SelectionStep(next, db, db') /\ ("leads" \in DOMAIN next => C26_Progress(next))
       /\ (serving[c].pc = "loop" /\ serving'[c] /= serving[c]) =>
            C26_LeadStep(serving[c], serving'[c], db, db')]_vars

\* C26 witness: a call on the three new leads whose second lead failed: an
\* error entry between two results, the first and the third lead updated and
\* logged, the second still new
C26_Witness ==
  /\ Answered(1)
  /\ serving[1].handler = "run_campaign"
  /\ serving[1].response.status_code = 200
  /\ serving[1].response.leads_processed = 3
  /\ ~C26_IsError(serving[1].response.results[1])
  /\ C26_IsError(serving[1].response.results[2])
  /\ serving[1].response.results[2].error = "insert_interaction"
  /\ ~C26_IsError(serving[1].response.results[3])
  /\ serving[2].pc = "idle"
  /\ db.leads[1].status = "qualified"
  /\ db.leads[2].status = "new"
  /\ db.leads[3].status = "disqualified"
  /\ Len(db.agent_interactions) = 2
  /\ db.agent_interactions[1].lead_id = 1 /\ db.agent_interactions[2].lead_id = 3

\* the interaction rows of a lead in the data
C27_RowsOf(data, id) ==
  {k \in DOMAIN data.agent_interactions : data.agent_interactions[k].lead_id = id}

\* the status of the lead in the data, None when it has no row
C27_StatusOf(data, id) ==
  IF \E i \in DOMAIN data.leads : data.leads[i].id = id
  THEN data.leads[CHOOSE i \in DOMAIN data.leads : data.leads[i].id = id].status
  ELSE None

\* a lead has an interaction row exactly when its status is 'qualified' or
\* 'disqualified', the row carrying that status as its decision, and it never
\* has two rows; a call processes at most NewLeadsLimit leads
C27_EachLeadOnce ==
  /\ \A i \in DOMAIN db.leads :
       /\ Cardinality(C27_RowsOf(db, db.leads[i].id)) <= 1
       /\ db.leads[i].status \in {"new", "qualified", "disqualified"}
       /\ C27_RowsOf(db, db.leads[i].id) = {} <=> db.leads[i].status = "new"
       /\ \A k \in C27_RowsOf(db, db.leads[i].id) :
            db.agent_interactions[k].decision = db.leads[i].status
  /\ \A c \in Clients :
       (Answered(c) /\ serving[c].response.status_code = 200) =>
         serving[c].response.leads_processed <= NewLeadsLimit

\* one iteration of the loop of the call that was r and is next: the lead of
\* an entry without error was 'new' and had no interaction row, and the one
\* step gave it the status 'qualified' or 'disqualified' and its one row
C27_ProcessedStep(r, next, old, new) ==
  LET entry == next.results[Len(next.results)]
  IN  ~C26_IsError(entry) =>
        /\ C27_StatusOf(old, entry.lead_id) = "new"
        /\ C27_RowsOf(old, entry.lead_id) = {}
        /\ C27_StatusOf(new, entry.lead_id)
             = (IF entry.qualified THEN "qualified" ELSE "disqualified")
        /\ Cardinality(C27_RowsOf(new, entry.lead_id)) = 1
        /\ Len(new.agent_interactions) = Len(old.agent_interactions) + 1

\* C27: in any sequence of run_campaign calls made without lead_ids, each
\* handled after the one before it returned, a lead processed successfully
\* goes in one step from 'new' to 'qualified' or 'disqualified' with exactly
\* one new interaction row; a lead has an interaction row exactly when its
\* status is no longer 'new' and never has two of them, so no lead is
\* qualified twice; a call processes at most NewLeadsLimit leads.
C27_QualifiedOncePerSequence ==
  /\ []C27_EachLeadOnce
  /\ [][\A c \in Clients :
          (serving[c].pc = "loop" /\ serving'[c] /= serving[c]) =>
            C27_ProcessedStep(serving[c], serving'[c], db, db')]_vars

\* C27 case: on the table of NewLeadsLimit + 1 new leads a first call
\* processed NewLeadsLimit leads and failed on the first of them; the call
\* made after it selected the two leads still 'new', the failed one and the
\* last one, and qualified both: every lead has its one interaction row
C27_Witness ==
  /\ Len(db.leads) = NewLeadsLimit + 1
  /\ Answered(1) /\ Answered(2)
  /\ "lead_ids" \notin DOMAIN serving[1].request
  /\ "lead_ids" \notin DOMAIN serving[2].request
  /\ serving[1].response.status_code = 200
  /\ serving[1].response.leads_processed = NewLeadsLimit
  /\ C26_IsError(serving[1].response.results[1])
  /\ serving[2].response.status_code = 200
  /\ serving[2].response.leads_processed = 2
  /\ serving[2].response.results[1].lead_id = 1
  /\ serving[2].response.results[2].lead_id = NewLeadsLimit + 1
  /\ \A i \in 1..2 : ~C26_IsError(serving[2].response.results[i])
  /\ Len(db.agent_interactions) = NewLeadsLimit + 1
  /\ \A i \in DOMAIN db.leads : db.leads[i].status = "qualified"
====
